---- MODULE Spec2Model ----
(***************************************************************************)
(* Verification model of the RAG study assistant backend                   *)
(* (backend/app): the expiring, user-scoped vector store                   *)
(* (rag/vectorstore.py), the agentic query engine                          *)
(* (rag/agent/agentic_engine.py), the conversation trimming of both        *)
(* engines, and the components around them: multi-hop retrieval, tool     *)
(* executor, web-search cache, model router, answer verifier, reranker,    *)
(* provider configuration and the application's start-up.                  *)
(*                                                                         *)
(* Specifications:                                                         *)
(*   Spec       - the vector store: add_documents, search, list_sources,   *)
(*                delete_source, cleanup_expired_sources, passing time.    *)
(*   EngineSpec - the agentic engine: concurrent query and query_stream    *)
(*                calls on shared sessions, interleaved at their           *)
(*                suspension points, and clear_conversation.               *)
(*   GrowthSpec - the agentic engine serving one call at a time while     *)
(*                every call fails.                                        *)
(*   TrimSpec   - _trim_conversation_history of both engines applied to    *)
(*                drawn histories.                                         *)
(*   HopSpec    - MultiHopRetrieval.retrieve over drawn store contents.    *)
(*   ToolSpec   - ToolExecutor.execute_tool and clear_history.             *)
(*   CacheSpec  - the result cache of a web-search tool.                   *)
(*   RouterSpec - ModelRouter.route_query and its complexity detection.    *)
(*   VerifierSpec - AnswerVerifier.verify over drawn answers and sources.  *)
(*   RerankSpec - Reranker.rerank with and without a scoring model.        *)
(*   ConfigSpec - the provider configuration of both engines under         *)
(*                set_provider and the provider resolution of query.       *)
(*   ClearSpec  - clear_conversation of both engines.                      *)
(*   ExpandSpec - retrieve with its query expansion, called with           *)
(*                different max_hops over one unchanged store.             *)
(*   ServerSpec - the application: start-up, expiry task, endpoint guards; *)
(*                ServerLiveSpec adds the fairness of the event loop.      *)
(***************************************************************************)
EXTENDS Integers, Sequences, FiniteSets, TLC

VARIABLES
    docs,       \* documents collection: groups of points sharing one payload
    sources,    \* sources collection: one record per source id
    now,        \* the clock read by datetime.utcnow(), in ticks
    nextId,     \* number of source ids (uuid4) handed out so far
    addedBy,    \* history: source id -> user that called add_documents with it
    last,       \* the last store operation, its arguments and its result
    conversations,    \* AgenticRAGEngine.conversations: session id -> turns
    current_provider, \* AgenticRAGEngine.current_provider ("none" for None)
    available,        \* providers whose API key is configured (settings)
    registered,       \* names of the web-search tools in tool_registry
    metrics,          \* metrics_collector.queries
    calls,            \* the query / query_stream calls in flight or just ended
    started,          \* number of calls started so far (source of query ids)
    rag_conversations, \* RAGQueryEngine.conversations: session id -> turns
    ranking,    \* the store's answer to the retrieval query, best match first
    retrieved,  \* the last MultiHopRetrieval.retrieve call and what it returned
    execution_history, \* ToolExecutor.execution_history
    invocations,       \* history: execute_tool calls since the last clear_history
    tool_last,         \* the last execute_tool call and how it ended
    cache,             \* a web-search tool's _cache, in the OrderedDict's order
    used,              \* history: the cached keys, least recently inserted or hit first
    web_last,          \* the last execute call of the web-search tool
    initialization_status, \* main.initialization_status
    vector_store,      \* main.vector_store: "None" or "set"
    query_engine,      \* main.query_engine: "None" or "set"
    agentic_engine,    \* main.agentic_engine: "None" or "set"
    lifespan_pc,       \* where the lifespan of the application stands
    init_pc,           \* where the initialize_rag_engine task stands
    cleanup_pc,        \* where the periodic_cleanup task stands
    cancelled,         \* cleanup_task.cancel() has been called
    sweep_last,        \* how the round after the last interval went ("none": not run)
    http_last,         \* the last request answered and its response
    route_last,        \* the last ModelRouter.route_query call and what it returned
    verify_last,       \* the last AnswerVerifier.verify call and what it returned
    rerank_last,       \* the last Reranker.rerank call and how it ended
    current_provider_name, \* AgenticRAGEngine.current_provider_name
    current_model,     \* AgenticRAGEngine.current_model
    provider_model,    \* current_provider.model ("none" without a provider)
    rag_provider,      \* RAGQueryEngine.provider
    rag_model,         \* RAGQueryEngine.model
    config_last,       \* the last call that touched or read the configuration
    hop_setup,         \* the query, the store's answers and the reranker of ExpandSpec
    hop_runs           \* the last retrieve call made with each max_hops

storeVars == <<docs, sources, now, nextId, addedBy, last>>

engineVars == <<conversations, current_provider, available, registered,
                metrics, calls, started, rag_conversations>>

hopVars == <<ranking, retrieved>>

\* the state outside the vector store and the two engines
toolVars == <<execution_history, invocations, tool_last>>

cacheVars == <<cache, used, web_last>>

serverVars == <<initialization_status, vector_store, query_engine, agentic_engine,
                lifespan_pc, init_pc, cleanup_pc, cancelled, sweep_last, http_last>>

\* the last calls of the components that keep no state of their own
\* the provider configuration of the two engines
configVars == <<current_provider_name, current_model, provider_model,
                rag_provider, rag_model, config_last>>

\* retrieve called with different max_hops over one store
expandVars == <<hop_setup, hop_runs>>

callVars == <<route_last, verify_last, rerank_last, configVars, expandVars>>

auxVars == <<hopVars, toolVars, cacheVars, serverVars, callVars>>

vars == <<docs, sources, now, nextId, addedBy, last,
          conversations, current_provider, available, registered,
          metrics, calls, started, rag_conversations, auxVars>>

----------------------------------------------------------------------------
(* Bounds of the model *)

MaxSources == 2      \* source ids handed out in one run
MaxTime == 3         \* last clock tick
HourTicks == 2       \* clock ticks per hour
MaxTopK == 2         \* largest top_k of a search
MaxCalls == 2        \* calls started in one run of EngineSpec
MaxChunks == 1       \* fragments of one streamed answer
MaxGrowthCalls == 21 \* calls started in one run of GrowthSpec
MaxTrimLen == 4      \* longest history drawn in TrimSpec
MaxTrimN == 3        \* largest max_messages passed in TrimSpec
MaxPoints == 2       \* points the store holds for a retrieval query
MaxHopTopK == 2      \* largest top_k of a multi-hop retrieval
MaxHops == 2         \* largest max_hops of a multi-hop retrieval
MaxInvocations == 3  \* execute_tool calls between two clear_history calls
MaxCacheSize == 2    \* _max_cache_size of a web-search tool (100), scaled down
MaxFragments == 3    \* longest query handed to the router, in fragments
CacheTtl == 2        \* _cache_ttl of a web-search tool (3600 s), in ticks

(* Program constants *)

DATA_RETENTION_HOURS == 1
DeleteScrollLimit == 10000
ListAllLimit == 1000
ListLimit == 100

Users == {"A", "B"}
SourceIds == 1..MaxSources
NoFilter == 0
NoUser == "nobody"

\* sizes of the chunk lists handed to add_documents: empty, small, and one
\* more than delete_source's scroll page
ChunkCounts == {0, 1, DeleteScrollLimit + 1}

----------------------------------------------------------------------------
(* Timestamps: datetime.isoformat() strings, compared as strings *)

\* isoformat(): a fixed-width, most-significant-first digit string
IsoFormat(t) == <<t \div 10, t % 10>>

\* the instant a timestamp string denotes
ParseIso(s) == s[1] * 10 + s[2]

\* Python's str < str: lexicographic, a proper prefix is smaller
RECURSIVE StrLess(_, _)
StrLess(a, b) ==
    IF b = <<>> THEN FALSE
    ELSE IF a = <<>> THEN TRUE
    ELSE IF Head(a) < Head(b) THEN TRUE
    ELSE IF Head(a) > Head(b) THEN FALSE
    ELSE StrLess(Tail(a), Tail(b))

----------------------------------------------------------------------------
(* Helpers over the collections *)

RECURSIVE SumN(_)
SumN(G) ==
    IF G = {} THEN 0
    ELSE LET g == CHOOSE x \in G : TRUE IN g.n + SumN(G \ {g})

Min(a, b) == IF a <= b THEN a ELSE b

\* client.scroll(limit=...): one page of at most limit records
ScrollResults(S, limit) ==
    IF Cardinality(S) <= limit THEN {S}
    ELSE {R \in SUBSET S : Cardinality(R) = limit}

\* Filter(must=[user_id == u, source_id == f]) over the documents collection
MatchDocs(D, u, f) ==
    {d \in D : d.user_id = u /\ d.source_id = f}

\* a search filter that drops the user condition once a source is named
SearchFilterNoUser(D, u, f) ==
    {d \in D : IF f # NoFilter THEN d.source_id = f ELSE d.user_id = u}

\* search's Filter(must=[user_id == u] + [source_id == f] when f is truthy)
SearchFilter(D, u, f) ==
    {d \in D : d.user_id = u /\ (f # NoFilter => d.source_id = f)}

\* the ids list_sources(user_id) reports
ListedIds(S, u) == {s.id : s \in {x \in S : x.user_id = u}}

\* the documents left after deleting one scroll page (at most limit points)
\* of the points in the groups M
RemovePage(D, M, limit) ==
    IF SumN(M) <= limit THEN {D \ M}
    ELSE IF Cardinality(M) = 1
    THEN {(D \ M) \cup {[g EXCEPT !.n = g.n - limit] : g \in M}}
    ELSE {(D \ M) \cup {[g EXCEPT !.n = g.n - t[g]] : g \in {x \in M : x.n > t[x]}} :
            t \in {f \in [M -> 0..limit] :
                     /\ \A g \in M : f[g] <= g.n
                     /\ SumN({[n |-> f[g], of |-> g] : g \in M}) = limit}}

\* delete_source(source_id, user_id): the possible resulting collections
DeleteOutcomes(D, S, sid, uid) ==
    {[docs |-> D2, sources |-> {s \in S : s.id # sid}] :
        D2 \in RemovePage(D, MatchDocs(D, uid, sid), DeleteScrollLimit)}

\* the loop of cleanup_expired_sources over the expired records E
RECURSIVE CleanupOutcomes(_, _, _)
CleanupOutcomes(D, S, E) ==
    IF E = {} THEN {[docs |-> D, sources |-> S]}
    ELSE LET e == CHOOSE x \in E : TRUE IN
         UNION {CleanupOutcomes(o.docs, o.sources, E \ {e}) :
                    o \in DeleteOutcomes(D, S, e.id, e.user_id)}

\* the count returned by the previous call when that was a cleanup too, else -1
Prev(l, op) == IF op = "cleanup" /\ l.op = "cleanup" THEN l.ret ELSE -1

----------------------------------------------------------------------------
(* The vector store *)

StoreInit ==
    /\ docs = {}
    /\ sources = {}
    /\ now = 0
    /\ nextId = 0
    /\ addedBy = [i \in SourceIds |-> NoUser]
    /\ last = [op |-> "init", user |-> NoUser, source_id |-> 0, top_k |-> 0,
               ret |-> 0, result |-> {}, prev |-> -1]

\* add_documents(chunks, source_id, ...) with a fresh uuid4 source id, n chunks;
\* d is the time that passes between the two utcnow() reads
AddDocuments(u, n, d) ==
    /\ nextId < MaxSources
    /\ now + d <= MaxTime
    /\ UNCHANGED <<engineVars, auxVars>>
    /\ LET sid == nextId + 1
           created_at == IsoFormat(now)
           expires_at == IsoFormat(now + d + DATA_RETENTION_HOURS * HourTicks)
       IN /\ nextId' = sid
          /\ addedBy' = [addedBy EXCEPT ![sid] = u]
          /\ last' = [op |-> "add_documents", user |-> u, source_id |-> sid,
                      top_k |-> 0, ret |-> n, result |-> {}, prev |-> -1]
          /\ IF n = 0
             THEN UNCHANGED <<docs, sources, now>>
             ELSE /\ now' = now + d
                  /\ docs' = docs \cup
                       {[source_id |-> sid, user_id |-> u, created_at |-> created_at,
                         expires_at |-> expires_at, n |-> n]}
                  /\ sources' = {s \in sources : s.id # sid} \cup
                       {[id |-> sid, user_id |-> u, chunks |-> n,
                         created_at |-> created_at, expires_at |-> expires_at]}

\* search(query, top_k, source_filter, user_id): the payloads of the points
\* returned; the ranking by similarity is left open
Search(u, f, k) ==
    LET matching == SearchFilter(docs, u, f)
        m == Min(k, SumN(matching))
    IN \E R \in SUBSET matching :
          /\ Cardinality(R) <= m
          /\ m <= SumN(R)
          /\ last' = [op |-> "search", user |-> u, source_id |-> f, top_k |-> k,
                      ret |-> m, result |-> R, prev |-> -1]
          /\ UNCHANGED <<docs, sources, now, nextId, addedBy>>
          /\ UNCHANGED <<engineVars, auxVars>>

\* list_sources(user_id)
ListSources(u) ==
    \E R \in ScrollResults({s \in sources : s.user_id = u}, ListLimit) :
        /\ last' = [op |-> "list_sources", user |-> u, source_id |-> 0, top_k |-> 0,
                    ret |-> Cardinality(R), result |-> {}, prev |-> -1]
        /\ UNCHANGED <<docs, sources, now, nextId, addedBy>>
        /\ UNCHANGED <<engineVars, auxVars>>

\* delete_source(source_id, user_id)
DeleteSource(sid, u) ==
    \E o \in DeleteOutcomes(docs, sources, sid, u) :
        /\ docs' = o.docs
        /\ sources' = o.sources
        /\ last' = [op |-> "delete_source", user |-> u, source_id |-> sid,
                    top_k |-> 0, ret |-> 0, result |-> {}, prev |-> -1]
        /\ UNCHANGED <<now, nextId, addedBy>>
        /\ UNCHANGED <<engineVars, auxVars>>

\* cleanup_expired_sources(): what it does to the store
CleanupStep ==
    LET current_time == IsoFormat(now) IN
    \E page \in ScrollResults(sources, ListAllLimit) :
      LET expired == {s \in page : StrLess(s.expires_at, current_time)} IN
      \E o \in CleanupOutcomes(docs, sources, expired) :
        /\ docs' = o.docs
        /\ sources' = o.sources
        /\ last' = [op |-> "cleanup", user |-> NoUser, source_id |-> 0,
                    top_k |-> 0, ret |-> Cardinality(expired), result |-> {},
                    prev |-> Prev(last, "cleanup")]
        /\ UNCHANGED <<now, nextId, addedBy>>

\* cleanup_expired_sources() called on the store alone
CleanupExpiredSources ==
    /\ CleanupStep
    /\ UNCHANGED <<engineVars, auxVars>>

\* time passes between requests
Tick ==
    /\ now < MaxTime
    /\ now' = now + 1
    /\ last' = [op |-> "tick", user |-> NoUser, source_id |-> 0, top_k |-> 0,
                ret |-> 0, result |-> {}, prev |-> -1]
    /\ UNCHANGED <<docs, sources, nextId, addedBy>>
    /\ UNCHANGED <<engineVars, auxVars>>

----------------------------------------------------------------------------
(* Multi-hop retrieval (rag/retrieval/multi_hop.py) *)

Contents == {"a", "b", "c"}

\* Python's hash(content): equal contents hash alike, and so may different ones
HashOf(c) == IF c = "b" THEN 2 ELSE 1

\* result.get("id") or hash(result.get("content", "")): the results that
\* VectorStore.search formats carry content, metadata and score, and no id
ContentId(r) == HashOf(r.content)

\* the answers the store can hold for a query: points in rank order
Rankings ==
    UNION {{[i \in 1..n |-> [content |-> f[i], point |-> i]] : f \in [1..n -> Contents]} :
            n \in 0..MaxPoints}

\* Python's seq[:n] for n >= 0
FirstN(q, n) == SubSeq(q, 1, Min(n, Len(q)))

\* vector_store.search(current_query, top_k * 2, ...): every hop sends the
\* same query, as QueryExpander.expand returns the original query first
HopSearch(rk, top_k) == FirstN(rk, top_k * 2)

\* Reranker.rerank(query, documents, top_k): the top_k best documents by the
\* cross-encoder's scores, or documents[:top_k] without a model
Reranks(documents, top_k) ==
    LET m == Min(top_k, Len(documents)) IN
    {[i \in 1..m |-> documents[f[i]]] :
        f \in {g \in [1..m -> 1..Len(documents)] :
                 \A i \in 1..m, j \in 1..m : g[i] = g[j] => i = j}}

\* the all_results that max_hops iterations of the loop can accumulate
RECURSIVE HopResults(_, _, _)
HopResults(rk, top_k, max_hops) ==
    IF max_hops = 0 \/ HopSearch(rk, top_k) = <<>> THEN {<<>>}
    ELSE {r \o rest : r \in Reranks(HopSearch(rk, top_k), top_k),
                      rest \in HopResults(rk, top_k, max_hops - 1)}

\* a deduplication that keeps everything
DedupeNothing(all_results, seen) == all_results

\* the loop over all_results that keeps the first result of each content id
RECURSIVE Dedupe(_, _)
Dedupe(all_results, seen) ==
    IF all_results = <<>> THEN <<>>
    ELSE IF ContentId(Head(all_results)) \in seen
         THEN Dedupe(Tail(all_results), seen)
         ELSE <<Head(all_results)>>
              \o Dedupe(Tail(all_results), seen \cup {ContentId(Head(all_results))})

NoRetrieve == [top_k |-> 0, max_hops |-> 0, all_results |-> <<>>, result |-> <<>>]

HopUnused == ranking = <<>> /\ retrieved = NoRetrieve

----------------------------------------------------------------------------
(* The tool executor (rag/agent/tool_executor.py) *)

ToolNames == {"calculator", "web_search"}

\* the arguments of a call: a mapping the tool accepts, a mapping it rejects,
\* or no mapping at all (json.loads of the model's argument string gives a
\* list, a number or null as readily as an object)
ArgKinds == {"valid", "invalid", "not_mapping"}

\* tool.validate_params(**arguments)
ValidateParams(arguments) ==
    IF arguments = "not_mapping" THEN "raise"
    ELSE IF arguments = "valid" THEN "true"
    ELSE "false"

\* what tool.execute(**arguments) does
ExecOutcomes == {"success", "failure", "raise"}

NoToolCall ==
    [op |-> "none", tool |-> "none", arguments |-> "valid", registered |-> FALSE,
     validation |-> "none", executed |-> FALSE, execution |-> "none",
     raised |-> FALSE, success |-> FALSE, error |-> "none"]

\* execute_tool(tool_name, arguments): how the call ends when the tool's
\* execute, if it is reached, does e
ExecuteToolOutcome(reg, tool_name, arguments, e) ==
    LET base == [NoToolCall EXCEPT !.op = "execute_tool", !.tool = tool_name,
                                   !.arguments = arguments,
                                   !.registered = (tool_name \in reg)]
        v == ValidateParams(arguments)
    IN IF tool_name \notin reg
       THEN [base EXCEPT !.error = "not found"]
       ELSE IF v = "raise"
       THEN [base EXCEPT !.validation = v, !.raised = TRUE, !.error = "TypeError"]
       ELSE IF v = "false"
       THEN [base EXCEPT !.validation = v, !.error = "invalid parameters"]
       ELSE IF e = "raise"
       THEN [base EXCEPT !.validation = v, !.executed = TRUE, !.execution = e,
                         !.error = "tool execution error"]
       ELSE [base EXCEPT !.validation = v, !.executed = TRUE, !.execution = e,
                         !.success = (e = "success"),
                         !.error = IF e = "success" THEN "none" ELSE "tool error"]

\* the entry execute_tool appends (the timestamp is left out)
HistoryEntry(o) == [tool |-> o.tool, arguments |-> o.arguments, success |-> o.success]

ToolUnused ==
    /\ execution_history = <<>>
    /\ invocations = 0
    /\ tool_last = NoToolCall

----------------------------------------------------------------------------
(* The web-search tools' result cache (rag/tools/web_search_tavily.py, *)
(* rag/tools/web_search_google.py: the two tools cache alike)          *)

SearchQueries == {"a", "A ", "b", " "}
ResultCounts == {3, 5}

\* query.lower().strip()
Normalize(query) ==
    IF query = "A " THEN "a"
    ELSE IF query = " " THEN ""
    ELSE query

\* _get_cache_key(query, max_results)
GetCacheKey(query, max_results) == <<Normalize(query), max_results>>

\* what the search backend answers: a list of results, or an exception
BackendOutcomes == {"nothing", "x", "y", "raise"}

\* the formatted result list of a backend answer
ResultsOf(b) == IF b = "nothing" THEN <<>> ELSE <<b>>

NoKey == <<"none", 0>>

\* the position of a key in the cache, 0 when it is not there
RECURSIVE IndexOf(_, _)
IndexOf(q, key) ==
    IF q = <<>> THEN 0
    ELSE IF q[Len(q)].key = key THEN Len(q)
    ELSE IndexOf(SubSeq(q, 1, Len(q) - 1), key)

\* the sequence without its i-th element
RemoveAt(q, i) == SubSeq(q, 1, i - 1) \o SubSeq(q, i + 1, Len(q))

\* the sequence of keys without one key
RECURSIVE WithoutKey(_, _)
WithoutKey(q, key) ==
    IF q = <<>> THEN <<>>
    ELSE IF Head(q) = key THEN WithoutKey(Tail(q), key)
    ELSE <<Head(q)>> \o WithoutKey(Tail(q), key)

\* _get_cached(cache_key) at time t: the cache afterwards and what is returned
\* (found says whether a result is returned rather than None)
GetCached(c, key, t) ==
    LET i == IndexOf(c, key) IN
    IF i = 0 THEN [cache |-> c, found |-> FALSE, result |-> <<>>]
    ELSE IF t - c[i].timestamp < CacheTtl
    THEN [cache |-> Append(RemoveAt(c, i), c[i]), found |-> TRUE, result |-> c[i].result]
    ELSE [cache |-> RemoveAt(c, i), found |-> FALSE, result |-> <<>>]

\* a cache that evicts the entry used last
SetCacheEvictNewest(c, key, result, t) ==
    LET full == Len(c) >= MaxCacheSize
        c1 == IF full THEN SubSeq(c, 1, Len(c) - 1) ELSE c
        i == IndexOf(c1, key)
        e == [key |-> key, result |-> result, timestamp |-> t]
    IN [cache |-> IF i = 0 THEN Append(c1, e) ELSE [c1 EXCEPT ![i] = e],
        evicted |-> IF full THEN c[Len(c)].key ELSE NoKey]

\* _set_cache(cache_key, result) at time t: popitem(last=False) on a full
\* cache, then the assignment, which keeps the place of a key already there
SetCache(c, key, result, t) ==
    LET full == Len(c) >= MaxCacheSize
        c1 == IF full THEN Tail(c) ELSE c
        i == IndexOf(c1, key)
        e == [key |-> key, result |-> result, timestamp |-> t]
    IN [cache |-> IF i = 0 THEN Append(c1, e) ELSE [c1 EXCEPT ![i] = e],
        evicted |-> IF full THEN c[1].key ELSE NoKey]

\* "if cached_result:" - an empty list is no hit
IsHit(g) == g.found /\ g.result # <<>>

\* (oldest is the key that was least recently inserted or hit when the call
\* inserted, the inserted key itself left aside unless it is the only one)
NoSearch ==
    [op |-> "none", key |-> NoKey, success |-> FALSE, cached |-> FALSE, data |-> <<>>,
     backend |-> FALSE, fresh |-> FALSE, stored |-> <<>>, evicted |-> NoKey,
     oldest |-> NoKey, size_before |-> 0]

CacheUnused ==
    /\ cache = <<>>
    /\ used = <<>>
    /\ web_last = NoSearch

----------------------------------------------------------------------------
(* The application (main.py): start-up, the expiry task, the guards *)

NoResponse == [endpoint |-> "none", req |-> "none", code |-> 0, body |-> "none"]

ServerUnused ==
    /\ initialization_status = "startup"
    /\ vector_store = "None"
    /\ query_engine = "None"
    /\ agentic_engine = "None"
    /\ lifespan_pc = "startup"
    /\ init_pc = "not created"
    /\ cleanup_pc = "not created"
    /\ cancelled = FALSE
    /\ sweep_last = "none"
    /\ http_last = NoResponse

\* the endpoints that need the agentic engine, and the source listing
EngineEndpoints ==
    {"POST /query", "POST /query/stream", "GET /settings/model", "POST /settings/model"}
Endpoints == EngineEndpoints \cup {"GET /sources"}

\* the endpoints that take a request body (QueryRequest, ModelConfig)
BodyEndpoints == {"POST /query", "POST /query/stream", "POST /settings/model"}

\* the requests sent: with a body that fits the endpoint's model, or not
RequestKinds(endpoint) == IF endpoint \in BodyEndpoints THEN {"ok", "malformed"} ELSE {"ok"}

\* a guard that lets every request through
EngineGuardOpen(engine) == FALSE

\* "if not agentic_engine: raise HTTPException(status_code=503, ...)"
EngineGuard(engine) == engine = "None"

\* the response to a request; past the guards the handler hands the request
\* to the engine or the store, whose behaviour is the other specifications'
Respond(endpoint, req, engine, store) ==
    LET r == [NoResponse EXCEPT !.endpoint = endpoint, !.req = req] IN
    IF req = "malformed"
    THEN [r EXCEPT !.code = 422, !.body = "validation error"]
    ELSE IF endpoint \in EngineEndpoints
    THEN IF EngineGuard(engine)
         THEN [r EXCEPT !.code = 503, !.body = "Query engine not initialized"]
         ELSE [r EXCEPT !.code = 200, !.body = "engine"]
    ELSE IF store = "None"
         THEN [r EXCEPT !.code = 200, !.body = "empty list"]
         ELSE [r EXCEPT !.code = 200, !.body = "sources"]

\* a periodic_cleanup that gives up after a sweep that raised
AfterSweepErrorStop == "done"

\* "except Exception as e: print(...)": the loop goes on to the next sleep
AfterSweepError == "sleeping"

NoRoute ==
    [op |-> "none", query |-> <<>>, preferred |-> "none", complexity |-> "none",
     detected |-> "none", provider |-> "none"]

RouteUnused == route_last = NoRoute

NoVerify ==
    [op |-> "none", answer |-> <<>>, sources |-> <<>>,
     verified |-> TRUE, confidence |-> <<0, 1>>, issues |-> <<>>,
     source_agreement |-> <<0, 1>>]

VerifyUnused == verify_last = NoVerify

NoRerank ==
    [op |-> "none", documents |-> <<>>, top_k |-> 0, model |-> "none",
     raises |-> FALSE, scores |-> <<>>, raised |-> FALSE, result |-> <<>>]

RerankUnused == rerank_last = NoRerank

NoHopRun == [ran |-> FALSE, searched |-> <<>>, result |-> <<>>]

ExpandUnused ==
    /\ hop_setup = [query |-> <<>>, top_k |-> 0, other_ranking |-> <<>>,
                    model |-> "none", raises |-> FALSE, scores |-> <<>>]
    /\ hop_runs = <<>>

\* the default_model of each branch of ProviderFactory.create_provider
DefaultModel(provider) ==
    CASE provider = "anthropic" -> "claude-sonnet-4-20250514"
      [] provider = "gemini" -> "gemini-2.5-flash"
      [] provider = "groq" -> "llama-3.3-70b-versatile"
      [] OTHER -> "none"

\* RAGQueryEngine.PROVIDERS[provider]["default"]
RagDefaultModel(provider) ==
    IF provider = "groq" THEN "llama-3.1-70b-versatile" ELSE "gemini-2.5-flash"

NoConfig ==
    [op |-> "none", engine |-> "none", name |-> "none", model |-> "none",
     raised |-> "none",
     config |-> [provider |-> "none", model |-> "none", available_providers |-> {}]]

\* the configuration as the two constructors leave it
ConfigConstructed ==
    /\ current_provider_name = current_provider
    /\ provider_model = DefaultModel(current_provider)
    /\ current_model = provider_model
    /\ rag_provider = (IF "groq" \in available THEN "groq" ELSE "gemini")
    /\ rag_model = RagDefaultModel(rag_provider)
    /\ config_last = NoConfig

CallsUnused ==
    /\ RouteUnused
    /\ VerifyUnused
    /\ RerankUnused
    /\ ConfigConstructed
    /\ ExpandUnused

\* the state outside the vector store and the two engines, never used
AuxUnused == HopUnused /\ ToolUnused /\ CacheUnused /\ ServerUnused /\ CallsUnused

----------------------------------------------------------------------------
(* The agentic engine: configuration and pure helpers *)

Providers == {"anthropic", "gemini", "groq"}
WebTools == {"web_search", "web_search_google"}
Sessions == {"s1", "s2"}
Calls == {1, 2}

\* provider_name.lower()
ProviderLower(name) == IF name = "Gemini" THEN "gemini" ELSE name

\* ProviderFactory.create_provider(name): the provider, or "none" without key
CreateProvider(avail, name) ==
    LET provider_name == ProviderLower(name)
    IN IF provider_name \in avail /\ provider_name \in {"anthropic", "gemini", "groq"}
       THEN provider_name ELSE "none"

\* the first provider of a preference list that can be created
RECURSIVE FirstAvailable(_, _)
FirstAvailable(avail, names) ==
    IF names = <<>> THEN "none"
    ELSE IF CreateProvider(avail, Head(names)) # "none" THEN Head(names)
    ELSE FirstAvailable(avail, Tail(names))

\* ProviderFactory.get_default_provider()
GetDefaultProvider(avail) == FirstAvailable(avail, <<"anthropic", "gemini", "groq">>)

\* ModelRouter.route_query(query) for a query of the detected complexity cx
RouteQuery(avail, cx) ==
    LET tier == IF cx = "simple" THEN FirstAvailable(avail, <<"groq", "gemini", "openai">>)
                ELSE IF cx = "complex"
                     THEN FirstAvailable(avail, <<"anthropic", "openai", "gemini">>)
                     ELSE "none"
    IN IF tier # "none" THEN tier ELSE GetDefaultProvider(avail)

\* the provider keys a deployment may hold (config.py); the key of openai is
\* read but no openai provider can be created
ApiKeys == {"anthropic", "openai", "gemini", "groq"}

\* ProviderFactory.get_available_providers()
GetAvailableProviders(avail) == avail \cap {"anthropic", "gemini", "groq"}

\* A query is a sequence of fragments, its text their concatenation. The
\* fragments: keywords of the router, a word that holds a keyword inside
\* ("know" holds "no"), an upper-case keyword, and runs of filler characters.
Fragments == {"what is", "explain", "and", "?", "WHEN", "know", "pad93", "pad100"}

\* len(fragment)
FragmentLen(w) ==
    CASE w = "what is" -> 7
      [] w = "explain" -> 7
      [] w = "and" -> 3
      [] w = "?" -> 1
      [] w = "WHEN" -> 4
      [] w = "know" -> 4
      [] w = "pad93" -> 93
      [] w = "pad100" -> 100

\* str.lower()
Lower(w) == IF w = "WHEN" THEN "when" ELSE w

\* the keywords of the router that occur in a lower-case fragment
KeywordsIn(w) ==
    CASE w = "what is" -> {"what is"}
      [] w = "explain" -> {"explain"}
      [] w = "when" -> {"when"}
      [] w = "know" -> {"no"}
      [] OTHER -> {}

\* len(query)
RECURSIVE QueryLen(_)
QueryLen(q) == IF q = <<>> THEN 0 ELSE FragmentLen(Head(q)) + QueryLen(Tail(q))

\* query.count(x) for x one of "?" and "and"
RECURSIVE QueryCount(_, _)
QueryCount(q, x) ==
    IF q = <<>> THEN 0
    ELSE (IF Head(q) = x THEN 1 ELSE 0) + QueryCount(Tail(q), x)

\* any(keyword in query.lower() for keyword in kws)
AnyKeyword(q, kws) == \E i \in 1..Len(q) : KeywordsIn(Lower(q[i])) \cap kws # {}

simple_keywords == {"what is", "who is", "when", "where", "yes", "no"}
complex_keywords == {"explain", "analyze", "compare", "why", "how", "describe"}
SIMPLE_QUERY_MAX_LENGTH == 100
COMPLEX_QUERY_MIN_LENGTH == 200

\* a detection that does not look at the length of the query
DetectComplexityNoLength(q) ==
    IF AnyKeyword(q, simple_keywords) THEN "simple"
    ELSE IF AnyKeyword(q, complex_keywords) THEN "complex"
    ELSE IF QueryCount(q, "?") > 1 \/ QueryCount(q, "and") > 2 THEN "complex"
    ELSE "medium"

\* ModelRouter._detect_complexity(query)
DetectComplexity(q) ==
    IF AnyKeyword(q, simple_keywords) /\ QueryLen(q) < SIMPLE_QUERY_MAX_LENGTH
    THEN "simple"
    ELSE IF AnyKeyword(q, complex_keywords) \/ QueryLen(q) > COMPLEX_QUERY_MIN_LENGTH
    THEN "complex"
    ELSE IF QueryCount(q, "?") > 1 \/ QueryCount(q, "and") > 2 THEN "complex"
    ELSE "medium"

\* a router that skips the tiers
RouteTierless(avail, q, preferred, complexity) ==
    IF preferred # "none" /\ CreateProvider(avail, preferred) # "none"
    THEN CreateProvider(avail, preferred)
    ELSE GetDefaultProvider(avail)

\* ModelRouter.route_query(query, preferred_provider, None, complexity);
\* "none" stands for an argument left out
Route(avail, q, preferred, complexity) ==
    IF preferred # "none" /\ CreateProvider(avail, preferred) # "none"
    THEN CreateProvider(avail, preferred)
    ELSE RouteQuery(avail, IF complexity = "none" THEN DetectComplexity(q)
                           ELSE complexity)

\* tool_registry.get("web_search") or tool_registry.get("web_search_google")
GetWebTool(reg) ==
    IF "web_search" \in reg THEN "web_search"
    ELSE IF "web_search_google" \in reg THEN "web_search_google"
    ELSE "none"

RECURSIVE SelectSeq2(_, _)
\* [m for m in messages if keep(m)] with keep given as the set of kept roles
SelectSeq2(h, roles) ==
    IF h = <<>> THEN <<>>
    ELSE IF Head(h).role \in roles THEN <<Head(h)>> \o SelectSeq2(Tail(h), roles)
    ELSE SelectSeq2(Tail(h), roles)

\* Python's seq[-n:] for n >= 1
LastN(h, n) == IF Len(h) <= n THEN h ELSE SubSeq(h, Len(h) - n + 1, Len(h))

\* Python's seq[:-1]
AllButLast(h) == IF h = <<>> THEN <<>> ELSE SubSeq(h, 1, Len(h) - 1)

AllRoles == {"user", "assistant", "system"}

\* AgenticRAGEngine._trim_conversation_history on one session's history
TrimAgentic(h, n) ==
    IF Len(h) > n
    THEN SelectSeq2(h, {"system"}) \o LastN(SelectSeq2(h, AllRoles \ {"system"}), n)
    ELSE h

\* RAGQueryEngine._trim_conversation_history on one session's history
TrimRag(h, n) == IF Len(h) > n THEN LastN(h, n) ELSE h

\* the default max_messages of _trim_conversation_history
max_messages == 20

\* the final user message: the question folded into the prompt template,
\* with the context block when the context is not empty
UserContent(template, q, ctx) == [template |-> template, question |-> q, context |-> ctx]

\* a message list that passes the whole history, current question included
BuildMessagesWholeHistory(h, template, q, ctx) ==
    h \o <<[role |-> "user", content |-> UserContent(template, q, ctx)]>>

\* messages = [LLMMessage(m) for m in conversations[session_id][:-1]]
\*            + [LLMMessage("user", user_content)]
BuildMessages(h, template, q, ctx) ==
    AllButLast(h) \o <<[role |-> "user", content |-> UserContent(template, q, ctx)]>>

\* a failure path that records nothing
RecordFailureSkipped(m, qid, err) == m

\* metrics_collector.record_query(QueryMetrics(..., success=False, error=str(e)))
RecordFailure(m, qid, err) ==
    Append(m, [query_id |-> qid, success |-> FALSE, error |-> err])

\* metrics_collector.record_query(QueryMetrics(..., success=True))
RecordSuccess(m, qid) ==
    Append(m, [query_id |-> qid, success |-> TRUE, error |-> "none"])

\* the SSE frame main.query_stream writes for an engine event
FrameOf(ev) ==
    IF ev = "chunk" THEN "chunk"
    ELSE IF ev = "web_search" THEN "web_search"
    ELSE IF ev = "done" THEN "done"
    ELSE IF ev = "error" THEN "error"
    ELSE "dropped"

Frames(events) == [i \in 1..Len(events) |-> FrameOf(events[i])]

IdleCall ==
    [pc |-> "idle", kind |-> "none", session |-> "s1", question |-> "q1", qid |-> 0,
     ua |-> FALSE, uw |-> FALSE, has_results |-> FALSE, has_web |-> FALSE,
     nchunks |-> 0, prior |-> <<>>, raced |-> FALSE, built |-> FALSE, messages |-> <<>>,
     events |-> <<>>, err |-> "none",
     kw |-> FALSE, routed |-> 0, planned |-> FALSE, web_calls |-> 0,
     retrieved |-> FALSE, generated |-> FALSE]

InFlight == {"generating", "s_retrieve", "s_build", "s_stream"}

\* a call that has ended: its arguments and local variables are gone, what it
\* was given, what it handed to the provider and what it emitted remain
Ended(cr, pc, err) ==
    [cr EXCEPT !.pc = pc, !.err = err, !.ua = FALSE, !.uw = FALSE,
               !.has_results = FALSE, !.has_web = FALSE, !.nchunks = 0,
               !.kw = FALSE, !.routed = 0, !.planned = FALSE, !.web_calls = 0,
               !.retrieved = FALSE, !.generated = FALSE]

\* a call that ended at provider resolution: it ran no step, and what it was
\* called with is all there is to it
Refused(cr, pc) == [cr EXCEPT !.pc = pc, !.err = "No LLM provider available"]

\* a resolution that asks the router whatever the current provider is
RouterCallsAlways(cur) == 1

\* "if not self.current_provider: self.current_provider = route_query(question)":
\* how often the router is asked
RouterCalls(cur) == IF cur = "none" THEN 1 ELSE 0

\* the provider the call goes on with
ResolveProvider(cur, avail, cx) == IF cur = "none" THEN RouteQuery(avail, cx) ELSE cur

\* a query that searches the web only on request
WebSearchFirstOnRequest(tool, ua, uw, kw) == tool # "none" /\ uw

\* query: the web search before retrieval runs when it is requested, or when
\* the plan of an agentic call requires tools (plan_query sets requires_tools
\* for every question with a recency keyword) and the question holds a
\* recency keyword
WebSearchFirst(tool, ua, uw, kw) == tool # "none" /\ (uw \/ (ua /\ kw))

\* the web search after a retrieval that found nothing
WebSearchFallback(tool, uw, rr) == rr = "empty" /\ ~uw /\ tool # "none"

\* 1 for a step that ran
Ran(b) == IF b THEN 1 ELSE 0

\* the calls other than c that have appended their question to session s and
\* not yet built their messages see the history change under them
MarkRaced(cs, c, s) ==
    [x \in Calls |->
        IF x # c /\ cs[x].session = s /\ cs[x].pc \in {"s_retrieve", "s_build"}
        THEN [cs[x] EXCEPT !.raced = TRUE]
        ELSE cs[x]]

\* a start that records the question under the wrong role
UserTurnAsAssistant(q) == [role |-> "assistant", content |-> q]

\* {"role": "user", "content": question}
UserTurn(q) == [role |-> "user", content |-> q]
AssistantTurn == [role |-> "assistant", content |-> "answer"]

----------------------------------------------------------------------------
(* The agentic engine: construction *)

\* the deployments explored: which provider keys are configured and which
\* web-search tools the registry holds
KeySets == {{}, {"gemini", "groq"}}
ToolSets == {{}, {"web_search"}}

EngineInit ==
    /\ available \in KeySets
    /\ registered \in ToolSets
    /\ current_provider = GetDefaultProvider(available)
    /\ conversations = [s \in Sessions |-> <<>>]
    /\ metrics = <<>>
    /\ calls = [c \in Calls |-> IdleCall]
    /\ started = 0
    /\ rag_conversations = [s \in Sessions |-> <<>>]

\* the engine as the store specification holds it: built, never called
EngineUnused ==
    /\ available = {}
    /\ registered = {}
    /\ current_provider = GetDefaultProvider(available)
    /\ conversations = [s \in Sessions |-> <<>>]
    /\ metrics = <<>>
    /\ calls = [c \in Calls |-> IdleCall]
    /\ started = 0
    /\ rag_conversations = [s \in Sessions |-> <<>>]

\* the store as the engine specifications hold it: empty, never called
StoreUnused == StoreInit

----------------------------------------------------------------------------
(* query_stream: the generator runs from one suspension point (a yield) to   *)
(* the next; each operator below is one stretch of its body and yields the  *)
(* call's next record and the conversations it leaves                       *)

\* one item of the provider's generate_stream: a fragment, the end of the
\* stream (append the assistant turn, trim, yield done) or an exception
StreamItem(cr, conv, g) ==
    IF g = "raise"
    THEN [call |-> Ended([cr EXCEPT !.events = Append(@, "error")], "closed", "generation"),
          conv |-> conv]
    ELSE IF g = "chunk"
    THEN [call |-> [cr EXCEPT !.pc = "s_stream", !.nchunks = @ + 1,
                              !.events = Append(@, "chunk")],
          conv |-> conv]
    ELSE [call |-> Ended([cr EXCEPT !.events = Append(@, "done")], "closed", "none"),
          conv |-> [conv EXCEPT ![cr.session] =
                        TrimAgentic(Append(@, AssistantTurn), max_messages)]]

\* build context and messages, then start streaming
BuildSeg(cr, conv, g) ==
    LET ctx == cr.has_results \/ cr.has_web
        msgs == BuildMessages(conv[cr.session], "stream", cr.question, ctx)
    IN StreamItem([cr EXCEPT !.built = TRUE, !.messages = msgs, !.generated = TRUE],
                  conv, g)

\* retrieve chunks, then the automatic web-search fallback
RetrSeg(cr, conv, tool, rr, ws2, g) ==
    IF rr = "raise"
    THEN [call |-> Ended([cr EXCEPT !.events = Append(@, "error")], "closed", "retrieval"),
          conv |-> conv]
    ELSE LET cr1 == [cr EXCEPT !.has_results = (rr = "results"), !.retrieved = TRUE,
                               !.web_calls = @ + Ran(WebSearchFallback(tool, cr.uw, rr))]
         IN
         IF WebSearchFallback(tool, cr.uw, rr) /\ ws2 # "fail"
         THEN [call |-> [cr1 EXCEPT !.has_web = (ws2 = "hit"), !.pc = "s_build",
                                    !.events = Append(@, "web_search")],
               conv |-> conv]
         ELSE BuildSeg(cr1, conv, g)

\* from the call to the first yield
StartSeg(cr, conv, cp, tool, ws, rr, ws2, g) ==
    IF cp = "none"
    THEN [call |-> Refused([cr EXCEPT !.events = Append(@, "error")], "closed"),
          conv |-> conv]
    ELSE IF cr.uw /\ tool # "none" /\ ws # "fail"
    THEN [call |-> [cr EXCEPT !.has_web = (ws = "hit"), !.pc = "s_retrieve",
                              !.web_calls = 1, !.events = Append(@, "web_search")],
          conv |-> conv]
    ELSE IF cr.uw /\ tool = "none"
    THEN [call |-> [cr EXCEPT !.pc = "s_retrieve", !.events = Append(@, "error")],
          conv |-> conv]
    ELSE RetrSeg([cr EXCEPT !.web_calls = Ran(cr.uw)], conv, tool, rr, ws2, g)

\* a new call takes the lowest slot that holds no call in flight
FreeSlot(c) ==
    /\ calls[c].pc \notin InFlight
    /\ \A x \in Calls : x < c => calls[x].pc \in InFlight

\* query_stream(question, session_id, ..., use_agentic, use_web_search) up to
\* its first yield; cx is the complexity the router detects, ws and ws2 the
\* outcomes of the web-search tool, rr of retrieval, g of the provider
StreamStart(c, s, q, ua, uw, cx, ws, rr, ws2, g) ==
    /\ FreeSlot(c)
    /\ LET cp == ResolveProvider(current_provider, available, cx)
           conv1 == [conversations EXCEPT ![s] = Append(@, UserTurn(q))]
           cr0 == [IdleCall EXCEPT !.kind = "stream", !.session = s, !.question = q,
                                   !.qid = started + 1, !.uw = uw,
                                   !.prior = conversations[s],
                                   !.routed = RouterCalls(current_provider)]
           res == StartSeg(cr0, conv1, cp, GetWebTool(registered), ws, rr, ws2, g)
       IN /\ res.call.nchunks <= MaxChunks
          /\ current_provider' = cp
          /\ conversations' = res.conv
          /\ calls' = MarkRaced([calls EXCEPT ![c] = res.call], c, s)
          /\ started' = started + 1
    /\ UNCHANGED <<available, registered, metrics>>
    /\ UNCHANGED <<storeVars, rag_conversations, auxVars>>

\* the consumer resumes the generator after a yield
StreamResume(c, rr, ws2, g) ==
    /\ calls[c].kind = "stream"
    /\ calls[c].pc \in {"s_retrieve", "s_build", "s_stream"}
    /\ LET cr == calls[c]
           res == IF cr.pc = "s_retrieve"
                  THEN RetrSeg(cr, conversations, GetWebTool(registered), rr, ws2, g)
                  ELSE IF cr.pc = "s_build" THEN BuildSeg(cr, conversations, g)
                  ELSE StreamItem(cr, conversations, g)
       IN /\ res.call.nchunks <= MaxChunks
          /\ conversations' = res.conv
          /\ calls' = IF res.conv = conversations
                      THEN [calls EXCEPT ![c] = res.call]
                      ELSE MarkRaced([calls EXCEPT ![c] = res.call], c, cr.session)
    /\ UNCHANGED <<current_provider, available, registered, metrics, started>>
    /\ UNCHANGED <<storeVars, rag_conversations, auxVars>>

----------------------------------------------------------------------------
(* query: runs without suspension up to the provider call *)

\* query(question, session_id, ..., use_agentic, use_web_search) up to
\* "await self.current_provider.generate(...)"; kw says whether the question
\* holds a recency keyword
QueryStart(c, s, q, ua, uw, kw, cx, ws, rr, ws2) ==
    /\ FreeSlot(c)
    /\ LET cp == ResolveProvider(current_provider, available, cx)
           qid == started + 1
           tool == GetWebTool(registered)
           conv1 == [conversations EXCEPT ![s] = Append(@, UserTurn(q))]
           cr0 == [IdleCall EXCEPT !.kind = "query", !.session = s, !.question = q,
                                   !.qid = qid, !.ua = ua, !.uw = uw, !.kw = kw,
                                   !.prior = conversations[s],
                                   !.routed = RouterCalls(current_provider)]
           first == WebSearchFirst(tool, ua, uw, kw)
           web1 == first /\ ws = "hit"
           fallback == WebSearchFallback(tool, uw, rr)
           web2 == IF fallback /\ ws2 # "fail" THEN ws2 = "hit" ELSE web1
           ctx == (rr = "results") \/ web2
       IN /\ current_provider' = cp
          /\ conversations' = conv1
          /\ started' = qid
          /\ IF cp = "none" \/ rr = "raise"
             THEN LET e == IF cp = "none" THEN "No LLM provider available" ELSE "retrieval" IN
                  /\ metrics' = RecordFailure(metrics, qid, e)
                  /\ calls' = MarkRaced([calls EXCEPT ![c] =
                                  IF cp = "none" THEN Refused(cr0, "failed")
                                  ELSE Ended(cr0, "failed", e)], c, s)
             ELSE /\ metrics' = metrics
                  /\ calls' = MarkRaced([calls EXCEPT ![c] =
                                  [cr0 EXCEPT !.pc = "generating",
                                              !.has_results = (rr = "results"),
                                              !.has_web = web2,
                                              !.planned = ua,
                                              !.web_calls = Ran(first) + Ran(fallback),
                                              !.retrieved = TRUE,
                                              !.generated = TRUE,
                                              !.built = TRUE,
                                              !.messages = BuildMessages(conv1[s], "query", q, ctx)]],
                                  c, s)
    /\ UNCHANGED <<available, registered>>
    /\ UNCHANGED <<storeVars, rag_conversations, auxVars>>

\* generate returns or raises; then verification, the assistant turn, the
\* trim and the metrics
QueryResume(c, out) ==
    /\ calls[c].kind = "query"
    /\ calls[c].pc = "generating"
    /\ out = "verify_raise" => (calls[c].ua /\ calls[c].has_results)
    /\ LET cr == calls[c] IN
       IF out = "ok"
       THEN /\ conversations' = [conversations EXCEPT ![cr.session] =
                                    TrimAgentic(Append(@, AssistantTurn), max_messages)]
            /\ metrics' = RecordSuccess(metrics, cr.qid)
            /\ calls' = MarkRaced([calls EXCEPT ![c] = Ended(cr, "responded", "none")],
                                  c, cr.session)
       ELSE LET e == IF out = "raise" THEN "generation" ELSE "verification" IN
            /\ conversations' = conversations
            /\ metrics' = RecordFailure(metrics, cr.qid, e)
            /\ calls' = [calls EXCEPT ![c] = Ended(cr, "failed", e)]
    /\ UNCHANGED <<current_provider, available, registered, started>>
    /\ UNCHANGED <<storeVars, rag_conversations, auxVars>>

\* a clear_conversation that empties the whole dictionary
ClearedEverything(convs, s) == [t \in DOMAIN convs |-> <<>>]

\* "if session_id in self.conversations: del self.conversations[session_id]":
\* a session without entry reads as the empty history
ClearedConversations(convs, s) == [convs EXCEPT ![s] = <<>>]

\* "if session_id in self.conversations: self.conversations[session_id] = []"
RagClearedConversations(convs, s) == [convs EXCEPT ![s] = <<>>]

\* clear_conversation(session_id)
ClearConversation(s) ==
    /\ conversations[s] # <<>>
    /\ conversations' = ClearedConversations(conversations, s)
    /\ calls' = MarkRaced(calls, 0, s)
    /\ UNCHANGED <<current_provider, available, registered, metrics, started>>
    /\ UNCHANGED <<storeVars, rag_conversations, auxVars>>

WebOutcomes == {"hit", "none", "fail"}
RetrievalOutcomes == {"results", "empty", "raise"}
StreamOutcomes == {"chunk", "end", "raise"}
QueryOutcomes == {"ok", "raise", "verify_raise"}
Complexities == {"simple", "medium", "complex"}

EngineSpecInit == StoreUnused /\ EngineInit /\ AuxUnused

\* the outcomes of a step the code does not take are not inputs
Needed(cond, S, dflt) == IF cond THEN S ELSE {dflt}

\* successive calls ask alternating questions
QuestionOf(n) == IF n % 2 = 1 THEN "q1" ELSE "q2"

\* the two sessions are interchangeable: the first call is on "s1"
CallSessions == IF started = 0 THEN {"s1"} ELSE Sessions

HasWebTool == GetWebTool(registered) # "none"

QueryCalls ==
    \E c \in Calls, s \in CallSessions, ua \in BOOLEAN, uw \in BOOLEAN,
       rr \in RetrievalOutcomes :
      \E kw \in Needed(ua /\ ~uw, BOOLEAN, FALSE),
         cx \in Needed(current_provider = "none", Complexities, "medium") :
        \E ws \in Needed(HasWebTool /\ (uw \/ (ua /\ kw)), WebOutcomes, "none"),
           ws2 \in Needed(HasWebTool /\ ~uw /\ rr = "empty", WebOutcomes, "none") :
          /\ started < MaxCalls
          /\ QueryStart(c, s, QuestionOf(started + 1), ua, uw, kw, cx, ws, rr, ws2)

StreamCalls ==
    \E c \in Calls, s \in CallSessions, ua \in BOOLEAN, uw \in BOOLEAN,
       g \in StreamOutcomes :
      \E ws \in Needed(HasWebTool /\ uw, WebOutcomes, "none"),
         cx \in Needed(current_provider = "none", Complexities, "medium") :
        \E rr \in Needed(~uw \/ (HasWebTool /\ ws = "fail"), RetrievalOutcomes, "results") :
          \E ws2 \in Needed(HasWebTool /\ ~uw /\ rr = "empty", WebOutcomes, "none") :
            /\ started < MaxCalls
            /\ StreamStart(c, s, QuestionOf(started + 1), ua, uw, cx, ws, rr, ws2, g)

StreamResumes ==
    \E c \in Calls, g \in StreamOutcomes :
      \E rr \in Needed(calls[c].pc = "s_retrieve", RetrievalOutcomes, "results") :
        \E ws2 \in Needed(HasWebTool /\ ~calls[c].uw /\ rr = "empty", WebOutcomes, "none") :
          StreamResume(c, rr, ws2, g)

EngineNext ==
    \/ QueryCalls
    \/ \E c \in Calls, out \in QueryOutcomes : QueryResume(c, out)
    \/ StreamCalls
    \/ StreamResumes
    \/ \E s \in Sessions : ClearConversation(s)

EngineSpec == EngineSpecInit /\ [][EngineNext]_vars

----------------------------------------------------------------------------
(* GrowthSpec: one client on session "s1", one call at a time, every call   *)
(* failing: without a provider key at the provider resolution, with one    *)
(* at the provider (query) or at any step (query_stream); the query calls   *)
(* of a run come before its query_stream calls                              *)

GrowthQuery ==
    \E ua \in BOOLEAN, uw \in BOOLEAN, rr \in RetrievalOutcomes \ {"raise"} :
      \E kw \in Needed(ua /\ ~uw, BOOLEAN, FALSE),
         cx \in Needed(current_provider = "none", Complexities, "medium") :
        \E ws \in Needed(HasWebTool /\ (uw \/ (ua /\ kw)), WebOutcomes, "none"),
           ws2 \in Needed(HasWebTool /\ ~uw /\ rr = "empty", WebOutcomes, "none") :
          /\ started < MaxGrowthCalls
          /\ Len(metrics) = started
          /\ QueryStart(1, "s1", QuestionOf(started + 1), ua, uw, kw, cx, ws, rr, ws2)

GrowthStream ==
    \E ua \in BOOLEAN, uw \in BOOLEAN :
      \E ws \in Needed(HasWebTool /\ uw, WebOutcomes, "none"),
         cx \in Needed(current_provider = "none", Complexities, "medium") :
        \E rr \in Needed(~uw \/ (HasWebTool /\ ws = "fail"), RetrievalOutcomes, "results") :
          \E ws2 \in Needed(HasWebTool /\ ~uw /\ rr = "empty", WebOutcomes, "none") :
            /\ started < MaxGrowthCalls
            /\ StreamStart(1, "s1", QuestionOf(started + 1), ua, uw, cx, ws, rr, ws2, "raise")

GrowthStreamResumes ==
    \E rr \in Needed(calls[1].pc = "s_retrieve", RetrievalOutcomes, "results") :
      \E ws2 \in Needed(HasWebTool /\ ~calls[1].uw /\ rr = "empty", WebOutcomes, "none") :
        StreamResume(1, rr, ws2, "raise")

GrowthNext ==
    \/ GrowthQuery
    \/ QueryResume(1, "raise")
    \/ GrowthStream
    \/ GrowthStreamResumes

GrowthSpec == EngineSpecInit /\ [][GrowthNext]_vars

----------------------------------------------------------------------------
(* TrimSpec: _trim_conversation_history(session_id, max_messages) of the    *)
(* two engines, applied to histories of user, assistant and system turns;   *)
(* the content of a turn is its position in the drawn history               *)

Histories ==
    UNION {{[i \in 1..n |-> [role |-> f[i], content |-> i]] : f \in [1..n -> AllRoles]} :
            n \in 0..MaxTrimLen}

TrimInit ==
    /\ StoreUnused
    /\ available = {}
    /\ registered = {}
    /\ current_provider = GetDefaultProvider(available)
    /\ AuxUnused
    /\ metrics = <<>>
    /\ calls = [c \in Calls |-> IdleCall]
    /\ started = 0
    /\ \E h \in Histories :
          /\ conversations = [s \in Sessions |-> IF s = "s1" THEN h ELSE <<>>]
          /\ rag_conversations = conversations

\* AgenticRAGEngine._trim_conversation_history(s, n)
TrimConversationHistory(s, n) ==
    /\ conversations' = [conversations EXCEPT ![s] = TrimAgentic(@, n)]
    /\ last' = [op |-> "trim", session |-> s, n |-> n]
    /\ UNCHANGED <<docs, sources, now, nextId, addedBy>>
    /\ UNCHANGED <<current_provider, available, registered, metrics, calls, started,
                   rag_conversations, auxVars>>

\* RAGQueryEngine._trim_conversation_history(s, n)
RagTrimConversationHistory(s, n) ==
    /\ rag_conversations' = [rag_conversations EXCEPT ![s] = TrimRag(@, n)]
    /\ last' = [op |-> "rag_trim", session |-> s, n |-> n]
    /\ UNCHANGED <<docs, sources, now, nextId, addedBy>>
    /\ UNCHANGED <<current_provider, available, registered, metrics, calls, started,
                   conversations, auxVars>>

TrimNext ==
    \/ \E s \in Sessions, n \in 1..MaxTrimN : TrimConversationHistory(s, n)
    \/ \E s \in Sessions, n \in 1..MaxTrimN : RagTrimConversationHistory(s, n)

TrimSpec == TrimInit /\ [][TrimNext]_vars

----------------------------------------------------------------------------
(* HopSpec: MultiHopRetrieval.retrieve over drawn store contents *)

HopInit ==
    /\ StoreUnused
    /\ EngineUnused
    /\ ranking \in Rankings
    /\ retrieved = NoRetrieve
    /\ ToolUnused
    /\ CacheUnused
    /\ ServerUnused
    /\ CallsUnused

\* retrieve(query, top_k, max_hops, source_filter, user_id)
Retrieve(top_k, max_hops) ==
    /\ \E all_results \in HopResults(ranking, top_k, max_hops) :
          retrieved' = [top_k |-> top_k, max_hops |-> max_hops,
                        all_results |-> all_results,
                        result |-> FirstN(Dedupe(all_results, {}), top_k)]
    /\ UNCHANGED ranking
    /\ UNCHANGED <<storeVars, engineVars, toolVars, cacheVars, serverVars, callVars>>

HopNext == \E top_k \in 0..MaxHopTopK, max_hops \in 0..MaxHops : Retrieve(top_k, max_hops)

HopSpec == HopInit /\ [][HopNext]_vars

----------------------------------------------------------------------------
(* ToolSpec: the tool executor over drawn registries *)

ToolInit ==
    /\ StoreUnused
    /\ HopUnused
    /\ CacheUnused
    /\ ServerUnused
    /\ ToolUnused
    /\ available = {}
    /\ registered \in SUBSET ToolNames
    /\ current_provider = GetDefaultProvider(available)
    /\ CallsUnused
    /\ conversations = [s \in Sessions |-> <<>>]
    /\ metrics = <<>>
    /\ calls = [c \in Calls |-> IdleCall]
    /\ started = 0
    /\ rag_conversations = [s \in Sessions |-> <<>>]

\* execute_tool(tool_name, arguments)
ExecuteTool(tool_name, arguments, e) ==
    /\ invocations < MaxInvocations
    /\ LET o == ExecuteToolOutcome(registered, tool_name, arguments, e) IN
          /\ tool_last' = o
          /\ execution_history' = IF o.executed /\ o.execution # "raise"
                                  THEN Append(execution_history, HistoryEntry(o))
                                  ELSE execution_history
    /\ invocations' = invocations + 1
    /\ UNCHANGED <<storeVars, engineVars, hopVars, cacheVars, serverVars, callVars>>

\* clear_history()
ClearHistory ==
    /\ invocations > 0
    /\ execution_history' = <<>>
    /\ invocations' = 0
    /\ tool_last' = [NoToolCall EXCEPT !.op = "clear_history"]
    /\ UNCHANGED <<storeVars, engineVars, hopVars, cacheVars, serverVars, callVars>>

ToolNext ==
    \/ \E tool_name \in ToolNames \cup {"unknown"}, arguments \in ArgKinds :
         \E e \in Needed(tool_name \in registered /\ ValidateParams(arguments) = "true",
                         ExecOutcomes, "success") :
            ExecuteTool(tool_name, arguments, e)
    \/ ClearHistory

ToolSpec == ToolInit /\ [][ToolNext]_vars

----------------------------------------------------------------------------
(* CacheSpec: one configured web-search tool and the clock *)

CacheInit == StoreUnused /\ EngineUnused /\ AuxUnused

\* execute(query, max_results) of a tool whose client is configured; b is
\* what the backend answers if it is called
WebSearchExecute(query, max_results, b) ==
    LET key == GetCacheKey(query, max_results)
        i == IndexOf(cache, key)
        base == [NoSearch EXCEPT !.op = "execute", !.key = key,
                                 !.size_before = Len(cache),
                                 !.fresh = (i # 0 /\ now - cache[i].timestamp < CacheTtl),
                                 !.stored = IF i = 0 THEN <<>> ELSE cache[i].result]
    IN IF Normalize(query) = ""
       THEN /\ web_last' = [base EXCEPT !.key = NoKey]
            /\ UNCHANGED <<cache, used>>
       ELSE LET g == GetCached(cache, key, now)
                dropped == i # 0 /\ ~g.found
                used1 == IF dropped THEN WithoutKey(used, key) ELSE used
            IN IF IsHit(g)
               THEN /\ cache' = g.cache
                    /\ used' = Append(WithoutKey(used, key), key)
                    /\ web_last' = [base EXCEPT !.success = TRUE, !.cached = TRUE,
                                                !.data = g.result]
               ELSE IF b = "raise"
               THEN /\ cache' = g.cache
                    /\ used' = used1
                    /\ web_last' = [base EXCEPT !.backend = TRUE]
               ELSE LET st == SetCache(g.cache, key, ResultsOf(b), now) IN
                    /\ cache' = st.cache
                    /\ used' = Append(WithoutKey(WithoutKey(used1, st.evicted), key), key)
                    /\ web_last' = [base EXCEPT !.success = TRUE, !.data = ResultsOf(b),
                                                !.backend = TRUE,
                                                !.evicted = st.evicted,
                                                !.oldest =
                                                    IF WithoutKey(used1, key) = <<>>
                                                    THEN key
                                                    ELSE Head(WithoutKey(used1, key))]

WebSearch(query, max_results, b) ==
    /\ WebSearchExecute(query, max_results, b)
    /\ UNCHANGED <<storeVars, engineVars, hopVars, toolVars, serverVars, callVars>>

CacheNext ==
    \/ \E query \in SearchQueries, max_results \in ResultCounts, b \in BackendOutcomes :
         WebSearch(query, max_results, b)
    \/ Tick

CacheSpec == CacheInit /\ [][CacheNext]_vars

----------------------------------------------------------------------------
(* ServerSpec: the application from start-up to shutdown *)

ServerInit == StoreUnused /\ EngineUnused /\ AuxUnused

otherVars == <<engineVars, hopVars, toolVars, cacheVars, callVars>>

\* lifespan up to its yield: both background tasks are created
Startup ==
    /\ lifespan_pc = "startup"
    /\ lifespan_pc' = "serving"
    /\ init_pc' = "created"
    /\ cleanup_pc' = "created"
    /\ UNCHANGED <<initialization_status, vector_store, query_engine, agentic_engine,
                   cancelled, sweep_last, http_last>>
    /\ UNCHANGED <<storeVars, otherVars>>

\* initialize_rag_engine starts: initialization_status = "initializing"
InitBegin ==
    /\ init_pc = "created"
    /\ initialization_status' = "initializing"
    /\ init_pc' = "importing"
    /\ UNCHANGED <<vector_store, query_engine, agentic_engine, lifespan_pc, cleanup_pc,
                   cancelled, sweep_last, http_last>>
    /\ UNCHANGED <<storeVars, otherVars>>

\* the imports succeed or fail, up to "await asyncio.to_thread(VectorStore)"
InitImported(ok) ==
    /\ init_pc = "importing"
    /\ IF ok
       THEN /\ init_pc' = "connecting"
            /\ UNCHANGED initialization_status
       ELSE /\ initialization_status' = "failed"
            /\ init_pc' = "done"
    /\ UNCHANGED <<vector_store, query_engine, agentic_engine, lifespan_pc, cleanup_pc,
                   cancelled, sweep_last, http_last>>
    /\ UNCHANGED <<storeVars, otherVars>>

\* the vector store connects or fails; then RAGQueryEngine(vector_store), up
\* to "await asyncio.to_thread(AgenticRAGEngine, vector_store)"
InitConnected(ok) ==
    /\ init_pc = "connecting"
    /\ IF ok
       THEN /\ vector_store' = "set"
            /\ query_engine' = "set"
            /\ init_pc' = "building"
            /\ UNCHANGED initialization_status
       ELSE /\ initialization_status' = "failed"
            /\ init_pc' = "done"
            /\ UNCHANGED <<vector_store, query_engine>>
    /\ UNCHANGED <<agentic_engine, lifespan_pc, cleanup_pc, cancelled, sweep_last,
                   http_last>>
    /\ UNCHANGED <<storeVars, otherVars>>

\* the agentic engine is built or fails, up to the initial cleanup
InitBuilt(ok) ==
    /\ init_pc = "building"
    /\ IF ok
       THEN /\ agentic_engine' = "set"
            /\ init_pc' = "cleaning"
            /\ UNCHANGED initialization_status
       ELSE /\ initialization_status' = "failed"
            /\ init_pc' = "done"
            /\ UNCHANGED agentic_engine
    /\ UNCHANGED <<vector_store, query_engine, lifespan_pc, cleanup_pc, cancelled,
                   sweep_last, http_last>>
    /\ UNCHANGED <<storeVars, otherVars>>

\* the initial cleanup returns or raises
InitCleaned(ok) ==
    /\ init_pc = "cleaning"
    /\ init_pc' = "done"
    /\ IF ok
       THEN /\ CleanupStep
            /\ initialization_status' = "ready"
       ELSE /\ initialization_status' = "failed"
            /\ UNCHANGED storeVars
    /\ UNCHANGED <<vector_store, query_engine, agentic_engine, lifespan_pc, cleanup_pc,
                   cancelled, sweep_last, http_last>>
    /\ UNCHANGED otherVars

\* periodic_cleanup runs for the first time, up to "await asyncio.sleep(600)"
CleanupBegin ==
    /\ cleanup_pc = "created"
    /\ ~cancelled
    /\ cleanup_pc' = "sleeping"
    /\ UNCHANGED <<initialization_status, vector_store, query_engine, agentic_engine,
                   lifespan_pc, init_pc, cancelled, sweep_last, http_last>>
    /\ UNCHANGED <<storeVars, otherVars>>

\* the interval has passed: the sleep is over and the task is due to run
\* its next round (a cancelled sleep does not end this way)
TimerFires ==
    /\ cleanup_pc = "sleeping"
    /\ ~cancelled
    /\ cleanup_pc' = "due"
    /\ sweep_last' = "none"
    /\ UNCHANGED <<initialization_status, vector_store, query_engine, agentic_engine,
                   lifespan_pc, init_pc, cancelled, http_last>>
    /\ UNCHANGED <<storeVars, otherVars>>

\* the task resumes after the sleep: "if vector_store:" the sweep, which
\* holds no await and runs to its end or to its exception, then the next sleep
SweepRound(ok) ==
    /\ cleanup_pc = "due"
    /\ ~cancelled
    /\ IF vector_store = "None"
       THEN /\ sweep_last' = "skipped"
            /\ cleanup_pc' = "sleeping"
            /\ UNCHANGED storeVars
       ELSE IF ok
       THEN /\ CleanupStep
            /\ sweep_last' = "swept"
            /\ cleanup_pc' = "sleeping"
       ELSE /\ sweep_last' = "raised"
            /\ cleanup_pc' = AfterSweepError
            /\ UNCHANGED storeVars
    /\ UNCHANGED <<initialization_status, vector_store, query_engine, agentic_engine,
                   lifespan_pc, init_pc, cancelled, http_last>>
    /\ UNCHANGED otherVars

\* the task is resumed with CancelledError at its await (or, never having
\* run, is not started at all): the loop breaks
CleanupCancelled ==
    /\ cancelled
    /\ cleanup_pc \in {"created", "sleeping", "due"}
    /\ cleanup_pc' = "done"
    /\ UNCHANGED <<initialization_status, vector_store, query_engine, agentic_engine,
                   lifespan_pc, init_pc, cancelled, sweep_last, http_last>>
    /\ UNCHANGED <<storeVars, otherVars>>

\* lifespan after its yield: cleanup_task.cancel(), up to "await cleanup_task"
Shutdown ==
    /\ lifespan_pc = "serving"
    /\ lifespan_pc' = "stopping"
    /\ cancelled' = TRUE
    /\ UNCHANGED <<initialization_status, vector_store, query_engine, agentic_engine,
                   init_pc, cleanup_pc, sweep_last, http_last>>
    /\ UNCHANGED <<storeVars, otherVars>>

\* "await cleanup_task" returns
ShutdownComplete ==
    /\ lifespan_pc = "stopping"
    /\ cleanup_pc = "done"
    /\ lifespan_pc' = "stopped"
    /\ UNCHANGED <<initialization_status, vector_store, query_engine, agentic_engine,
                   init_pc, cleanup_pc, cancelled, sweep_last, http_last>>
    /\ UNCHANGED <<storeVars, otherVars>>

\* a request to one of the guarded endpoints is answered
Request(endpoint, req) ==
    /\ lifespan_pc = "serving"
    /\ http_last' = Respond(endpoint, req, agentic_engine, vector_store)
    /\ UNCHANGED <<initialization_status, vector_store, query_engine, agentic_engine,
                   lifespan_pc, init_pc, cleanup_pc, cancelled, sweep_last>>
    /\ UNCHANGED <<storeVars, otherVars>>

ServerNext ==
    \/ Startup
    \/ InitBegin
    \/ \E ok \in BOOLEAN : InitImported(ok)
    \/ \E ok \in BOOLEAN : InitConnected(ok)
    \/ \E ok \in BOOLEAN : InitBuilt(ok)
    \/ \E ok \in BOOLEAN : InitCleaned(ok)
    \/ CleanupBegin
    \/ TimerFires
    \/ \E ok \in BOOLEAN : SweepRound(ok)
    \/ CleanupCancelled
    \/ Shutdown
    \/ ShutdownComplete
    \/ \E endpoint \in Endpoints : \E req \in RequestKinds(endpoint) : Request(endpoint, req)

ServerSpec == ServerInit /\ [][ServerNext]_vars

\* the event loop runs every task that is ready to run, and the timer of a
\* sleep goes off; nothing obliges the process to shut down or to be sent
\* requests
ServerLiveSpec ==
    /\ ServerSpec
    /\ WF_vars(InitBegin)
    /\ WF_vars(\E ok \in BOOLEAN : InitImported(ok))
    /\ WF_vars(\E ok \in BOOLEAN : InitConnected(ok))
    /\ WF_vars(\E ok \in BOOLEAN : InitBuilt(ok))
    /\ WF_vars(\E ok \in BOOLEAN : InitCleaned(ok))
    /\ WF_vars(CleanupBegin)
    /\ WF_vars(TimerFires)
    /\ WF_vars(\E ok \in BOOLEAN : SweepRound(ok))
    /\ WF_vars(CleanupCancelled)
    /\ WF_vars(ShutdownComplete)

----------------------------------------------------------------------------
(* RouterSpec: ModelRouter.route_query over drawn deployments *)

RouterQueries == UNION {[1..n -> Fragments] : n \in 0..MaxFragments}

\* the calls made: the query matters only when the complexity is left to the
\* router
RouteCalls ==
    {[NoRoute EXCEPT !.op = "call", !.query = q, !.preferred = preferred,
                     !.complexity = complexity] :
        q \in RouterQueries, preferred \in ApiKeys \cup {"none", "mistral"},
        complexity \in {"none"}}
    \cup
    {[NoRoute EXCEPT !.op = "call", !.preferred = preferred, !.complexity = complexity] :
        preferred \in ApiKeys \cup {"none", "mistral"},
        complexity \in {"simple", "medium", "complex"}}

RouterInit ==
    /\ StoreUnused
    /\ HopUnused /\ ToolUnused /\ CacheUnused /\ ServerUnused
    /\ VerifyUnused /\ RerankUnused
    /\ route_last \in RouteCalls
    /\ available \in SUBSET ApiKeys
    /\ registered = {}
    /\ current_provider = GetDefaultProvider(available)
    /\ conversations = [s \in Sessions |-> <<>>]
    /\ metrics = <<>>
    /\ calls = [c \in Calls |-> IdleCall]
    /\ started = 0
    /\ rag_conversations = [s \in Sessions |-> <<>>]
    /\ ConfigConstructed /\ ExpandUnused

\* route_query(query, preferred_provider, complexity=complexity)
RouteCall ==
    /\ route_last.op = "call"
    /\ route_last' =
          [route_last EXCEPT
              !.op = "route_query",
              !.detected = IF route_last.complexity = "none"
                           THEN DetectComplexity(route_last.query) ELSE "none",
              !.provider = Route(available, route_last.query, route_last.preferred,
                                 route_last.complexity)]
    /\ UNCHANGED <<storeVars, engineVars, hopVars, toolVars, cacheVars, serverVars,
                   verify_last, rerank_last, configVars, expandVars>>

RouterNext == RouteCall

RouterSpec == RouterInit /\ [][RouterNext]_vars

----------------------------------------------------------------------------
(* VerifierSpec: AnswerVerifier.verify over drawn answers and sources *)

MaxWords == 1
MaxVerifySources == 2

\* "words[:20]": the words kept of each text
KeywordLimit == 20

\* "[a-zA-Z]{4,}": the letters a word needs to count
MinKeywordLetters == 4

\* the words texts are made of: a long word, a word in upper case, a word too
\* short to count, and "fill", which only pads a text up to the limit
Vocabulary == {"alpha", "BETA", "the"}

Letters(w) == CASE w = "the" -> 3 [] w = "alpha" -> 5 [] OTHER -> 4

\* text.lower(), word by word
WordLower(w) == IF w = "BETA" THEN "beta" ELSE w

PadText(n) == [i \in 1..n |-> "fill"]

\* a text is the sequence of its words; a source without "content" reads as
\* the empty text
VerifyTexts ==
    {PadText(n) \o t : n \in {0, KeywordLimit},
                       t \in UNION {[1..k -> Vocabulary] : k \in 0..MaxWords}}

\* re.findall(r'\b[a-zA-Z]{4,}\b', text.lower())
FindWords(text) ==
    LET lowered == [i \in DOMAIN text |-> WordLower(text[i])]
        Counts(w) == Letters(w) >= MinKeywordLetters
    IN SelectSeq(lowered, Counts)

\* _extract_keywords(texts): the first 20 words of every text, in order
RECURSIVE ExtractKeywords(_)
ExtractKeywords(texts) ==
    IF texts = <<>> THEN <<>>
    ELSE FirstN(FindWords(Head(texts)), KeywordLimit) \o ExtractKeywords(Tail(texts))

\* set(keywords)
KeywordSet(keywords) == {keywords[i] : i \in DOMAIN keywords}

\* a quotient of two naturals is kept as <<numerator, denominator>>
RECURSIVE FractionSum(_)
FractionSum(fs) ==
    IF fs = <<>> THEN <<0, 1>>
    ELSE LET f == Head(fs)
             r == FractionSum(Tail(fs))
         IN <<f[1] * r[2] + r[1] * f[2], f[2] * r[2]>>

\* the pairs i < j of range(len(keywords_sets)), in the order of the loops
RECURSIVE PairsFrom(_, _, _)
PairsFrom(i, j, n) ==
    IF i >= n THEN <<>>
    ELSE IF j > n THEN PairsFrom(i + 1, i + 2, n)
    ELSE <<(<<i, j>>)>> \o PairsFrom(i, j + 1, n)

\* _calculate_agreement(contents): the mean Jaccard similarity of the pairs of
\* sources whose keyword sets are not both empty
CalculateAgreement(contents) ==
    IF Len(contents) < 2 THEN <<1, 1>>
    ELSE LET keywords_sets == [i \in DOMAIN contents |->
                                  KeywordSet(ExtractKeywords(<<contents[i]>>))]
             pairs == PairsFrom(1, 2, Len(contents))
             Joined(p) == Cardinality(keywords_sets[p[1]] \cup keywords_sets[p[2]]) > 0
             kept == SelectSeq(pairs, Joined)
             similarities ==
                 [k \in DOMAIN kept |->
                    <<Cardinality(keywords_sets[kept[k][1]] \cap keywords_sets[kept[k][2]]),
                      Cardinality(keywords_sets[kept[k][1]] \cup keywords_sets[kept[k][2]])>>]
             total == FractionSum(similarities)
         IN IF similarities = <<>> THEN <<0, 1>>
            ELSE <<total[1], total[2] * Len(similarities)>>

\* "confidence < 0.5"
BelowHalf(f) == 2 * f[1] < f[2]

\* verify(answer, sources, query): the dictionary returned
Verify(answer, srcs) ==
    IF srcs = <<>>
    THEN [verified |-> FALSE, confidence |-> <<0, 1>>,
          issues |-> <<"No sources available for verification">>,
          source_agreement |-> <<0, 1>>]
    ELSE LET source_keywords == ExtractKeywords(srcs)
             answer_keywords == ExtractKeywords(<<answer>>)
             overlap == Cardinality(KeywordSet(source_keywords)
                                    \cap KeywordSet(answer_keywords))
             total == Cardinality(KeywordSet(source_keywords))
             confidence == IF total > 0 THEN <<overlap, total>> ELSE <<4, 5>>
         IN [verified |-> ~BelowHalf(confidence),
             confidence |-> confidence,
             issues |-> IF BelowHalf(confidence)
                        THEN <<"Low confidence: answer may not align with sources">>
                        ELSE <<>>,
             source_agreement |-> CalculateAgreement(srcs)]

VerifyCalls ==
    {[NoVerify EXCEPT !.op = "call", !.answer = a, !.sources = srcs] :
        a \in VerifyTexts,
        srcs \in UNION {[1..n -> VerifyTexts] : n \in 0..MaxVerifySources}}

VerifierInit ==
    /\ StoreUnused /\ EngineUnused
    /\ HopUnused /\ ToolUnused /\ CacheUnused /\ ServerUnused
    /\ RouteUnused /\ RerankUnused /\ ConfigConstructed /\ ExpandUnused
    /\ verify_last \in VerifyCalls

\* await verifier.verify(answer, sources, query)
VerifyCall ==
    /\ verify_last.op = "call"
    /\ verify_last' =
          LET v == Verify(verify_last.answer, verify_last.sources)
          IN [verify_last EXCEPT !.op = "verify",
                                 !.verified = v.verified,
                                 !.confidence = v.confidence,
                                 !.issues = v.issues,
                                 !.source_agreement = v.source_agreement]
    /\ UNCHANGED <<storeVars, engineVars, hopVars, toolVars, cacheVars, serverVars,
                   route_last, rerank_last, configVars, expandVars>>

VerifierNext == VerifyCall

VerifierSpec == VerifierInit /\ [][VerifierNext]_vars

----------------------------------------------------------------------------
(* RerankSpec: Reranker.rerank over drawn documents, scores and failures *)

MaxRerankDocs == 3
MaxRerankTopK == 4
MaxScore == 1

RerankDocs == {"d1", "d2"}

\* scored_docs.sort(key=score, reverse=True): a stable sort, so documents of
\* equal score keep their order
SortByScore(documents, scores) ==
    LET Before(j, i) == scores[j] > scores[i] \/ (scores[j] = scores[i] /\ j < i)
        place == [i \in DOMAIN documents |->
                    1 + Cardinality({j \in DOMAIN documents : Before(j, i)})]
    IN [p \in DOMAIN documents |->
          documents[CHOOSE i \in DOMAIN documents : place[i] = p]]

\* a rerank without the "except Exception" around the scoring
RerankUnguarded(documents, top_k, model, raises, scores) ==
    IF documents = <<>> THEN [raised |-> FALSE, result |-> <<>>]
    ELSE IF model = "none" THEN [raised |-> FALSE, result |-> FirstN(documents, top_k)]
    ELSE IF raises THEN [raised |-> TRUE, result |-> <<>>]
    ELSE [raised |-> FALSE, result |-> FirstN(SortByScore(documents, scores), top_k)]

\* rerank(query, documents, top_k), for top_k >= 0: model is self.model, raises
\* says that the scoring raises, scores is what model.predict returns
Rerank(documents, top_k, model, raises, scores) ==
    IF documents = <<>> THEN [raised |-> FALSE, result |-> <<>>]
    ELSE IF model = "none" THEN [raised |-> FALSE, result |-> FirstN(documents, top_k)]
    ELSE IF raises THEN [raised |-> FALSE, result |-> FirstN(documents, top_k)]
    ELSE [raised |-> FALSE, result |-> FirstN(SortByScore(documents, scores), top_k)]

RerankCalls ==
    {[NoRerank EXCEPT !.op = "call", !.documents = d, !.top_k = k, !.model = m,
                      !.raises = x, !.scores = sc] :
        <<d, sc>> \in UNION {[1..n -> RerankDocs] \X [1..n -> 0..MaxScore] :
                              n \in 0..MaxRerankDocs},
        k \in 0..MaxRerankTopK, m \in {"none", "loaded"}, x \in BOOLEAN}

RerankInit ==
    /\ StoreUnused /\ EngineUnused
    /\ HopUnused /\ ToolUnused /\ CacheUnused /\ ServerUnused
    /\ RouteUnused /\ VerifyUnused /\ ConfigConstructed /\ ExpandUnused
    /\ rerank_last \in RerankCalls

\* await reranker.rerank(query, documents, top_k)
RerankCall ==
    /\ rerank_last.op = "call"
    /\ rerank_last' =
          LET r == Rerank(rerank_last.documents, rerank_last.top_k, rerank_last.model,
                          rerank_last.raises, rerank_last.scores)
          IN [rerank_last EXCEPT !.op = "rerank", !.raised = r.raised,
                                 !.result = r.result]
    /\ UNCHANGED <<storeVars, engineVars, hopVars, toolVars, cacheVars, serverVars,
                   route_last, verify_last, configVars, expandVars>>

RerankNext == RerankCall

RerankSpec == RerankInit /\ [][RerankNext]_vars

----------------------------------------------------------------------------
(* ConfigSpec: the provider configuration of the two engines under
   set_provider, get_current_config and the provider resolution of query *)

\* the names and models POST /settings/model is called with
SetProviderNames == {"gemini", "Gemini", "groq", "anthropic", "openai", "mistral"}
SetProviderModels == {"none", "custom-model"}

\* RAGQueryEngine.PROVIDERS
RagProviders == {"gemini", "groq"}

\* a set_provider that assigns the name before it creates the provider
SetProviderNameFirst(cur, cur_name, cur_model, obj_model, avail, name, model) ==
    LET provider == CreateProvider(avail, name)
    IN IF provider # "none"
       THEN [raised |-> "none", current_provider |-> provider,
             current_provider_name |-> name,
             current_model |-> IF model # "none" THEN model ELSE DefaultModel(provider),
             provider_model |-> IF model # "none" THEN model ELSE DefaultModel(provider)]
       ELSE [raised |-> "ValueError", current_provider |-> cur,
             current_provider_name |-> name, current_model |-> cur_model,
             provider_model |-> obj_model]

\* AgenticRAGEngine.set_provider(provider_name, model): the fields after the
\* call and what it raised; provider_model is the model of the provider object
SetProviderOutcome(cur, cur_name, cur_model, obj_model, avail, name, model) ==
    LET provider == CreateProvider(avail, name)
    IN IF provider # "none"
       THEN [raised |-> "none", current_provider |-> provider,
             current_provider_name |-> name,
             current_model |-> IF model # "none" THEN model ELSE DefaultModel(provider),
             provider_model |-> IF model # "none" THEN model ELSE DefaultModel(provider)]
       ELSE [raised |-> "ValueError", current_provider |-> cur,
             current_provider_name |-> cur_name, current_model |-> cur_model,
             provider_model |-> obj_model]

\* AgenticRAGEngine.get_current_config()
GetCurrentConfig(cur, cur_name, cur_model, avail) ==
    IF cur # "none"
    THEN [provider |-> cur_name, model |-> cur_model,
          available_providers |-> GetAvailableProviders(avail)]
    ELSE [provider |-> "none", model |-> "none", available_providers |-> {}]

\* RAGQueryEngine.set_provider(provider, model)
RagSetProviderOutcome(cur, cur_model, name, model) ==
    IF name \notin RagProviders
    THEN [raised |-> "ValueError", provider |-> cur, model |-> cur_model]
    ELSE [raised |-> "none", provider |-> name,
          model |-> IF model # "none" THEN model ELSE RagDefaultModel(name)]

\* RAGQueryEngine.get_current_config()
RagGetCurrentConfig(cur, cur_model) ==
    [provider |-> cur, model |-> cur_model, available_providers |-> RagProviders]

ConfigInit ==
    /\ StoreUnused
    /\ available \in SUBSET ApiKeys
    /\ registered = {}
    /\ current_provider = GetDefaultProvider(available)
    /\ conversations = [s \in Sessions |-> <<>>]
    /\ metrics = <<>>
    /\ calls = [c \in Calls |-> IdleCall]
    /\ started = 0
    /\ rag_conversations = [s \in Sessions |-> <<>>]
    /\ HopUnused /\ ToolUnused /\ CacheUnused /\ ServerUnused
    /\ RouteUnused /\ VerifyUnused /\ RerankUnused
    /\ ConfigConstructed /\ ExpandUnused

configRest == <<storeVars, conversations, available, registered, metrics, calls, started,
                rag_conversations, hopVars, toolVars, cacheVars, serverVars,
                route_last, verify_last, rerank_last, expandVars>>

\* POST /settings/model on the agentic engine: set_provider, and the
\* configuration that get_current_config reports after it
SetProvider(name, model) ==
    LET o == SetProviderOutcome(current_provider, current_provider_name, current_model,
                                provider_model, available, name, model)
    IN /\ current_provider' = o.current_provider
       /\ current_provider_name' = o.current_provider_name
       /\ current_model' = o.current_model
       /\ provider_model' = o.provider_model
       /\ config_last' =
             [op |-> "set_provider", engine |-> "agentic", name |-> name, model |-> model,
              raised |-> o.raised,
              config |-> GetCurrentConfig(o.current_provider, o.current_provider_name,
                                          o.current_model, available)]
       /\ UNCHANGED <<rag_provider, rag_model, configRest>>

\* set_provider on the RAGQueryEngine, and the configuration it reports after
RagSetProvider(name, model) ==
    LET o == RagSetProviderOutcome(rag_provider, rag_model, name, model)
    IN /\ rag_provider' = o.provider
       /\ rag_model' = o.model
       /\ config_last' =
             [op |-> "set_provider", engine |-> "rag", name |-> name, model |-> model,
              raised |-> o.raised,
              config |-> RagGetCurrentConfig(o.provider, o.model)]
       /\ UNCHANGED <<current_provider, current_provider_name, current_model,
                      provider_model, configRest>>

\* "if not self.current_provider: self.current_provider = route_query(question)"
\* at the start of query and query_stream, and the configuration reported
\* once the call is over
ResolveForQuery(cx) ==
    LET cp == ResolveProvider(current_provider, available, cx)
    IN /\ current_provider' = cp
       /\ provider_model' = IF current_provider = "none" THEN DefaultModel(cp)
                            ELSE provider_model
       /\ config_last' =
             [op |-> "query", engine |-> "agentic", name |-> "none", model |-> "none",
              raised |-> IF cp = "none" THEN "Exception" ELSE "none",
              config |-> GetCurrentConfig(cp, current_provider_name, current_model,
                                          available)]
       /\ UNCHANGED <<current_provider_name, current_model, rag_provider, rag_model,
                      configRest>>

ConfigNext ==
    \/ \E name \in SetProviderNames, model \in SetProviderModels : SetProvider(name, model)
    \/ \E name \in SetProviderNames, model \in SetProviderModels : RagSetProvider(name, model)
    \/ \E cx \in Complexities : ResolveForQuery(cx)

ConfigSpec == ConfigInit /\ [][ConfigNext]_vars

----------------------------------------------------------------------------
(* ClearSpec: clear_conversation of both engines over drawn histories *)

MaxClearLen == 2

ClearHistories == {h \in Histories : Len(h) <= MaxClearLen}

ClearInit ==
    /\ StoreUnused
    /\ available = {}
    /\ registered = {}
    /\ current_provider = GetDefaultProvider(available)
    /\ AuxUnused
    /\ metrics = <<>>
    /\ calls = [c \in Calls |-> IdleCall]
    /\ started = 0
    /\ conversations \in [Sessions -> ClearHistories]
    /\ rag_conversations = conversations

\* AgenticRAGEngine.clear_conversation(s); n is the length of the history
\* before the call, and nothing in the method can raise
ClearAgentic(s) ==
    /\ conversations' = ClearedConversations(conversations, s)
    /\ last' = [op |-> "clear", session |-> s, n |-> Len(conversations[s]),
                raised |-> FALSE]
    /\ UNCHANGED <<docs, sources, now, nextId, addedBy>>
    /\ UNCHANGED <<current_provider, available, registered, metrics, calls, started,
                   rag_conversations, auxVars>>

\* RAGQueryEngine.clear_conversation(s)
ClearRag(s) ==
    /\ rag_conversations' = RagClearedConversations(rag_conversations, s)
    /\ last' = [op |-> "rag_clear", session |-> s, n |-> Len(rag_conversations[s]),
                raised |-> FALSE]
    /\ UNCHANGED <<docs, sources, now, nextId, addedBy>>
    /\ UNCHANGED <<current_provider, available, registered, metrics, calls, started,
                   conversations, auxVars>>

ClearNext ==
    \/ \E s \in Sessions : ClearAgentic(s)
    \/ \E s \in Sessions : ClearRag(s)

ClearSpec == ClearInit /\ [][ClearNext]_vars

----------------------------------------------------------------------------
(* ExpandSpec: MultiHopRetrieval.retrieve with its query expansion, called
   with different max_hops over one unchanged store and one reranker *)

\* "expanded[:3]"
ExpandLimit == 3

\* the queries asked, word by word
HopQueries == {<<"what", "x">>, <<"What", "x">>, <<"x">>}

\* original_query.lower(), word by word
QueryWordLower(w) == IF w = "What" THEN "what" ELSE w

\* original_query.replace(old, new): replaces the words as they are written
ReplaceWord(q, old, new) == [i \in DOMAIN q |-> IF q[i] = old THEN new ELSE q[i]]

\* QueryExpander.expand(original_query, retrieved_context)
Expand(original_query) ==
    LET variations ==
            IF \E i \in DOMAIN original_query :
                  QueryWordLower(original_query[i]) = "what"
            THEN <<ReplaceWord(original_query, "what", "how"),
                   ReplaceWord(original_query, "what", "why")>>
            ELSE <<>>
    IN FirstN(<<original_query>> \o variations, ExpandLimit)

\* a retrieve that goes on with the second variant of the expander
NextQuerySecondVariant(query, current_query) ==
    LET expanded_queries == Expand(query)
    IN IF Len(expanded_queries) >= 2 THEN expanded_queries[2] ELSE current_query

\* "if expanded_queries: current_query = expanded_queries[0]"
NextQuery(query, current_query) ==
    LET expanded_queries == Expand(query)
    IN IF expanded_queries # <<>> THEN expanded_queries[1] ELSE current_query

\* vector_store.search(current_query, top_k * 2, ...) on the unchanged store:
\* one ranking for the query of the call, another for every other query
SearchFor(current_query, top_k) ==
    HopSearch(IF current_query = hop_setup.query THEN ranking
              ELSE hop_setup.other_ranking, top_k)

\* reranker.rerank(current_query, results, top_k) with the one scoring model
\* of the retriever
RerankWith(results, top_k) ==
    Rerank(results, top_k, hop_setup.model, hop_setup.raises,
           [i \in DOMAIN results |-> hop_setup.scores[results[i].content]]).result

\* the loop of retrieve: the queries searched and the all_results gathered
RECURSIVE RetrieveLoop(_, _, _, _, _)
RetrieveLoop(query, current_query, top_k, hops_left, acc) ==
    IF hops_left = 0 THEN acc
    ELSE LET results == SearchFor(current_query, top_k)
             searched == Append(acc.searched, current_query)
         IN IF results = <<>> THEN [acc EXCEPT !.searched = searched]
            ELSE RetrieveLoop(query,
                              IF hops_left > 1 THEN NextQuery(query, current_query)
                              ELSE current_query,
                              top_k, hops_left - 1,
                              [searched |-> searched,
                               all_results |-> acc.all_results
                                               \o RerankWith(results, top_k)])

\* retrieve(query, top_k, max_hops, ...): what it searched and what it returns
RetrieveOutcome(query, top_k, max_hops) ==
    LET loop == RetrieveLoop(query, query, top_k, max_hops,
                             [searched |-> <<>>, all_results |-> <<>>])
    IN [ran |-> TRUE, searched |-> loop.searched,
        result |-> FirstN(Dedupe(loop.all_results, {}), top_k)]

HopSetups ==
    {[query |-> q, top_k |-> k, other_ranking |-> rk, model |-> m, raises |-> x,
      scores |-> sc] :
        q \in HopQueries, k \in 0..MaxHopTopK,
        rk \in {r \in Rankings : Len(r) <= 1},
        <<m, x, sc>> \in
            {<<"none", FALSE, [c \in Contents |-> 0]>>,
             <<"loaded", TRUE, [c \in Contents |-> 0]>>}
            \cup {<<"loaded", FALSE, f>> : f \in [Contents -> {0, 1}]}}

ExpandInit ==
    /\ StoreUnused /\ EngineUnused
    /\ ranking \in Rankings
    /\ retrieved = NoRetrieve
    /\ ToolUnused /\ CacheUnused /\ ServerUnused
    /\ RouteUnused /\ VerifyUnused /\ RerankUnused /\ ConfigConstructed
    /\ hop_setup \in HopSetups
    /\ hop_runs = [h \in 1..MaxHops |-> NoHopRun]

\* await multi_hop_retrieval.retrieve(query, top_k, max_hops, ...)
RetrieveWith(max_hops) ==
    /\ hop_runs' = [hop_runs EXCEPT
                      ![max_hops] = RetrieveOutcome(hop_setup.query, hop_setup.top_k,
                                                    max_hops)]
    /\ UNCHANGED <<storeVars, engineVars, hopVars, toolVars, cacheVars, serverVars,
                   route_last, verify_last, rerank_last, configVars, hop_setup>>

ExpandNext == \E max_hops \in 1..MaxHops : RetrieveWith(max_hops)

ExpandSpec == ExpandInit /\ [][ExpandNext]_vars

----------------------------------------------------------------------------
(* Spec: the vector store alone *)

Init == StoreInit /\ EngineUnused /\ AuxUnused

Next ==
    \/ \E u \in Users, n \in ChunkCounts, d \in 0..1 : AddDocuments(u, n, d)
    \/ \E u \in Users, f \in SourceIds \cup {NoFilter}, k \in 1..MaxTopK : Search(u, f, k)
    \/ \E u \in Users : ListSources(u)
    \/ \E sid \in SourceIds, u \in Users : DeleteSource(sid, u)
    \/ CleanupExpiredSources
    \/ Tick

Spec == Init /\ [][Next]_vars

----------------------------------------------------------------------------
(* Properties of the vector store, checked under Spec *)

\* C1 (user isolation): whatever adds, deletes and cleanups came before, every
\* point a search by user B returns was written by an add_documents call of B,
\* with or without a source filter.
C1_SearchIsolation ==
    last.op = "search" =>
        \A d \in last.result : addedBy[d.source_id] = last.user

\* B searched with a filter naming a source of another user whose chunks are
\* stored, while B has chunks of its own
C1_Witness ==
    /\ last.op = "search"
    /\ last.source_id # NoFilter
    /\ addedBy[last.source_id] \notin {last.user, NoUser}
    /\ \E d \in docs : d.source_id = last.source_id
    /\ \E d \in docs : d.user_id = last.user

\* C3 (delete by a non-owner is a no-op): a delete_source call by a user with
\* no stored chunk under that source id changes neither collection.
C3_NonOwnerDeleteNoOp ==
    [][(/\ last'.op = "delete_source"
        /\ MatchDocs(docs, last'.user, last'.source_id) = {})
       => (docs' = docs /\ sources' = sources)]_vars

\* C4 (delete by the owner): after delete_source(id, user) by the owner no
\* chunk of that user carries the id and list_sources(user) does not report
\* it; the same call repeated changes nothing.
C4_OwnerDeleteComplete ==
    [][/\ (/\ last'.op = "delete_source"
           /\ MatchDocs(docs, last'.user, last'.source_id) # {})
          => (/\ MatchDocs(docs', last'.user, last'.source_id) = {}
              /\ last'.source_id \notin ListedIds(sources', last'.user))
       /\ (/\ last.op = "delete_source"
           /\ last'.op = "delete_source"
           /\ last'.user = last.user
           /\ last'.source_id = last.source_id)
          => (docs' = docs /\ sources' = sources)]_vars

\* C5 (expiry sweep): cleanup_expired_sources removes exactly the source
\* records that expired before the call and every chunk of those sources,
\* leaves the rest, returns the number removed; repeated at once it returns 0
\* and changes nothing.
C5_CleanupExact ==
    [][last'.op = "cleanup" =>
        LET expired == {s \in sources : ParseIso(s.expires_at) < now} IN
        /\ sources' = sources \ expired
        /\ docs' = {d \in docs : d.source_id \notin {s.id : s \in expired}}
        /\ last'.ret = Cardinality(expired)
        /\ (last.op = "cleanup" => (last'.ret = 0 /\ docs' = docs /\ sources' = sources))]_vars

----------------------------------------------------------------------------
(* Properties of the agentic engine *)

TerminalEvents == {"done", "error"}

\* C2 (one terminal event, last): in the events a query_stream call has
\* emitted, and in the SSE frames written for them, a done or error event is
\* the last one, so there is at most one and nothing follows an error; a
\* call that has ended has emitted one.
C2_OneTerminalEventLast ==
    \A c \in Calls :
        calls[c].kind = "stream" =>
            LET ev == Frames(calls[c].events) IN
            /\ \A i \in 1..Len(ev) : ev[i] \in TerminalEvents => i = Len(ev)
            /\ calls[c].pc = "closed" => (ev # <<>> /\ ev[Len(ev)] \in TerminalEvents)

\* C6 (bounded history): whenever no call on a session is in flight, the
\* session's history holds at most max_messages (20) turns.
C6_HistoryBounded ==
    \A s \in Sessions :
        (\A c \in Calls : ~(calls[c].session = s /\ calls[c].pc \in InFlight))
            => Len(conversations[s]) <= max_messages

\* the turns of h whose role is not system
NonSystem(h) == SelectSeq2(h, AllRoles \ {"system"})

\* the position in h of the turn x (the turns of a drawn history differ)
PositionIn(h, x) == CHOOSE k \in 1..Len(h) : h[k] = x

\* what a trim to n turns has to leave of the history h
Trimmed(h, t, n) ==
    IF Len(h) <= n THEN t = h
    ELSE /\ Len(t) <= n
         /\ \A i \in 1..Len(t) : \E k \in 1..Len(h) : h[k] = t[i]
         /\ \A i \in 1..Len(t), j \in 1..Len(t) :
               i < j => PositionIn(h, t[i]) < PositionIn(h, t[j])
         /\ \A i \in 1..Len(h) : h[i].role = "system" => \E j \in 1..Len(t) : t[j] = h[i]
         /\ LET recent == LastN(NonSystem(h), n - 1) IN
            n > 1 => \A i \in 1..Len(recent) : \E j \in 1..Len(t) : t[j] = recent[i]

\* C7 (trim): _trim_conversation_history(session_id, N) of either engine
\* leaves a history of more than N turns with at most N turns, among them
\* every system turn and the N-1 most recent other turns, in their original
\* relative order, and leaves a history of at most N turns unchanged.
C7_TrimKeepsSystemAndRecent ==
    [][/\ last'.op = "trim" =>
            Trimmed(conversations[last'.session], conversations'[last'.session], last'.n)
       /\ last'.op = "rag_trim" =>
            Trimmed(rag_conversations[last'.session], rag_conversations'[last'.session],
                    last'.n)]_vars

\* C8 (user turn first, kept on failure): the step in which a query call
\* starts appends {role: user, content: question} to its session's history
\* and changes no other turn or session, whether the call fails at once or
\* goes on to the provider; the step in which it fails afterwards changes no
\* history.
C8_UserTurnKeptOnFailure ==
    [][\A c \in Calls :
        /\ (started' = started + 1 /\ calls'[c].kind = "query" /\ calls'[c].qid = started')
           => conversations' =
                [conversations EXCEPT ![calls'[c].session] =
                    Append(@, [role |-> "user", content |-> calls'[c].question])]
        /\ (calls[c].kind = "query" /\ calls[c].pc = "generating" /\ calls'[c].pc = "failed")
           => conversations' = conversations]_vars

\* a query call that failed after its start, on a session that already held
\* a question and an answer, with its question as the last turn
C8_Witness ==
    \E c \in Calls :
        /\ calls[c].kind = "query"
        /\ calls[c].pc = "failed"
        /\ calls[c].err \in {"generation", "verification"}
        /\ Len(calls[c].prior) = 2
        /\ conversations[calls[c].session] =
              Append(calls[c].prior, [role |-> "user", content |-> calls[c].question])

\* the metrics entries recorded under query id q
EntriesOf(q) == {i \in 1..Len(metrics) : metrics[i].query_id = q}

MessagesArePriorPlusQuestion(cr) ==
    LET m == cr.messages IN
    /\ Len(m) = Len(cr.prior) + 1
    /\ SubSeq(m, 1, Len(cr.prior)) = cr.prior
    /\ m[Len(m)].role = "user"
    /\ m[Len(m)].content.question = cr.question
    /\ cr.pc \in InFlight => m[Len(m)].content.context = (cr.has_results \/ cr.has_web)

\* C10 as stated (every interleaving): whatever other requests did on the
\* session while the call was suspended, the messages a query or
\* query_stream call hands to the provider are the turns the session held
\* before the call, then one user message with the call's question.
C10_MessagesAnyInterleaving ==
    \A c \in Calls :
        calls[c].built => MessagesArePriorPlusQuestion(calls[c])

\* C10 (amended): the same, for a call during which no other request and no
\* clear_conversation changed the session's history between the call's
\* append of its question and its construction of the messages.
C10_MessagesWithoutInterleaving ==
    \A c \in Calls :
        (calls[c].built /\ ~calls[c].raced)
            => MessagesArePriorPlusQuestion(calls[c])

\* a query_stream call that started on a session where another call was
\* already in flight, was suspended at a web_search event, resumed with the
\* history as it left it, and is streaming
C10_Witness ==
    \E c \in Calls, x \in Calls :
        /\ calls[c].kind = "stream"
        /\ calls[c].pc = "s_stream"
        /\ calls[c].events[1] = "web_search"
        /\ ~calls[c].raced
        /\ Len(calls[c].prior) >= 1
        /\ x # c
        /\ calls[x].session = calls[c].session
        /\ calls[x].pc \in InFlight

----------------------------------------------------------------------------
(* Properties of the multi-hop retrieval, checked under HopSpec *)

\* the first position of x in the sequence q
FirstSeen(q, x) == CHOOSE k \in 1..Len(q) : q[k] = x /\ \A j \in 1..(k - 1) : q[j] # x

\* C11 (multi-hop output): retrieve returns at most top_k results, no two
\* of them with the same content, each one taken from the accumulated hop
\* results and in the order in which the hops first produced them.
C11_AtMostTopKDistinct ==
    LET r == retrieved.result IN
    /\ Len(r) <= retrieved.top_k
    /\ \A i \in 1..Len(r), j \in 1..Len(r) : r[i].content = r[j].content => i = j
    /\ \A i \in 1..Len(r) : \E k \in 1..Len(retrieved.all_results) :
          retrieved.all_results[k] = r[i]
    /\ \A i \in 1..Len(r), j \in 1..Len(r) :
          i < j => FirstSeen(retrieved.all_results, r[i]) < FirstSeen(retrieved.all_results, r[j])

\* two hops over a store holding two points of equal content: the hops
\* accumulated four results and one was returned
C11_Witness ==
    /\ retrieved.max_hops = 2
    /\ retrieved.top_k = 2
    /\ Len(retrieved.all_results) = 4
    /\ Len(retrieved.result) = 1
    /\ \E i \in 1..Len(ranking), j \in 1..Len(ranking) :
          i # j /\ ranking[i].content = ranking[j].content

----------------------------------------------------------------------------
(* Properties of the tool executor, checked under ToolSpec *)

\* C12 (execute_tool never raises): every execute_tool call returns a
\* ToolResult; for an unknown tool, for parameters that fail validation (the
\* tool's execute is then not called) and for an exception raised while
\* validating or executing, the result has success = false and an error.
C12_AlwaysToolResult ==
    tool_last.op = "execute_tool" =>
        /\ ~tool_last.raised
        /\ (\/ ~tool_last.registered
            \/ tool_last.validation \in {"false", "raise"}
            \/ tool_last.execution = "raise")
           => (~tool_last.success /\ tool_last.error # "none")
        /\ tool_last.validation = "false" => ~tool_last.executed

\* C13 (one history entry per invocation): the execution history holds one
\* entry for every execute_tool call since the last clear_history.
C13_HistoryCountsInvocations ==
    Len(execution_history) = invocations

----------------------------------------------------------------------------
(* Properties of the steps of one call, checked under EngineSpec *)

\* a call whose arguments and steps are still on record: in flight, or ended
\* at provider resolution
Observable(cr) ==
    \/ cr.pc \in InFlight
    \/ cr.err = "No LLM provider available"

\* the three conditions under which query searches the web
WebSearchConditions(cr) ==
    \/ cr.uw
    \/ cr.ua /\ cr.kw
    \/ cr.retrieved /\ ~cr.has_results /\ ~cr.uw

\* C14 as stated (web search iff one of the three conditions): in every
\* query call, with a web-search tool registered, the tool is executed if
\* and only if use_web_search is set, or the call is agentic and its plan
\* requires tools and the question holds a recency keyword, or retrieval
\* returned nothing and use_web_search is not set; otherwise the tool is not
\* called and web_search_used is false.
C14_WebSearchIffConditions ==
    \A c \in Calls :
        (calls[c].kind = "query" /\ Observable(calls[c]) /\ HasWebTool) =>
            /\ (calls[c].web_calls > 0) <=> WebSearchConditions(calls[c])
            /\ ~WebSearchConditions(calls[c]) => ~calls[c].has_web

\* C14 amended (the same for a call that has resolved a provider): in every
\* query call that got past provider resolution, with a web-search tool
\* registered, the tool is executed if and only if one of the three
\* conditions holds; otherwise it is not called and web_search_used is false.
C14_WebSearchIffConditionsWithProvider ==
    \A c \in Calls :
        (calls[c].kind = "query" /\ calls[c].pc = "generating" /\ HasWebTool) =>
            /\ (calls[c].web_calls > 0) <=> WebSearchConditions(calls[c])
            /\ ~WebSearchConditions(calls[c]) => ~calls[c].has_web

\* an agentic query with a recency keyword searched the web before retrieval
\* and again after retrieval found nothing, and both searches found nothing
C14_Witness ==
    \E c \in Calls :
        /\ calls[c].kind = "query" /\ calls[c].pc = "generating" /\ HasWebTool
        /\ calls[c].ua /\ calls[c].kw /\ ~calls[c].uw
        /\ calls[c].web_calls = 2
        /\ ~calls[c].has_web

\* C15 (provider resolution): a call made while a provider is configured
\* goes on with it and never asks the router; a call made while none is
\* configured asks the router once; when the router has none either, the
\* call ends with 'No LLM provider available', raised by query and emitted
\* as the only event of query_stream, before planning, web search, retrieval
\* or generation.
C15_ProviderResolution ==
    \A c \in Calls :
        (calls[c].kind # "none" /\ Observable(calls[c])) =>
            LET cr == calls[c]
                configured == GetDefaultProvider(available) # "none"
                routable == \E cx \in Complexities : RouteQuery(available, cx) # "none"
            IN /\ configured => (cr.routed = 0 /\ cr.pc \in InFlight)
               /\ ~configured => cr.routed = 1
               /\ (~configured /\ ~routable) =>
                    /\ cr.err = "No LLM provider available"
                    /\ ~cr.planned /\ cr.web_calls = 0 /\ ~cr.retrieved /\ ~cr.generated
                    /\ cr.kind = "query" =>
                         /\ cr.pc = "failed"
                         /\ \E i \in 1..Len(metrics) :
                               /\ metrics[i].query_id = cr.qid
                               /\ metrics[i].error = "No LLM provider available"
                    /\ cr.kind = "stream" => (cr.pc = "closed" /\ cr.events = <<"error">>)

\* with no provider key configured and a web-search tool registered, a
\* query call has raised the error, and after it a query_stream call that
\* asked for a web search ended with the error event
C15_Witness ==
    /\ HasWebTool
    /\ Len(metrics) = 1
    /\ metrics[1].error = "No LLM provider available"
    /\ \E c \in Calls :
           /\ calls[c].kind = "stream" /\ calls[c].uw
           /\ calls[c].err = "No LLM provider available"
           /\ calls[c].routed = 1
           /\ calls[c].events = <<"error">>

----------------------------------------------------------------------------
(* Properties of the web-search cache, checked under CacheSpec *)

\* C16 (a cached result is served without a backend call): an execute whose
\* key holds a stored result younger than the time-to-live calls no backend
\* and returns the stored list with cached = true, whatever that list is.
C16_CacheHitSkipsBackend ==
    (web_last.op = "execute" /\ web_last.fresh) =>
        /\ ~web_last.backend
        /\ web_last.success /\ web_last.cached
        /\ web_last.data = web_last.stored

\* C17 (bounded cache, least recently used evicted): the cache never holds
\* more than its maximum of entries, and an insertion that evicts, evicts the
\* entry whose last insertion or cache hit is the oldest.
C17_BoundedLru ==
    /\ Len(cache) <= MaxCacheSize
    /\ web_last.evicted # NoKey => web_last.evicted = web_last.oldest

----------------------------------------------------------------------------
(* Properties of the application, checked under ServerSpec and ServerLiveSpec *)

StatusMoves ==
    {<<"startup", "initializing">>, <<"initializing", "ready">>,
     <<"initializing", "failed">>}

\* the status moves along the two paths only, and a failure leaves the
\* process where it was in its life
StatusStep ==
    /\ initialization_status' # initialization_status =>
           <<initialization_status, initialization_status'>> \in StatusMoves
    /\ (initialization_status # "failed" /\ initialization_status' = "failed") =>
           lifespan_pc' = lifespan_pc

\* the answers of the guarded endpoints to the requests in S
GuardedAnswers(S) ==
    /\ initialization_status = "ready" => (vector_store = "set" /\ agentic_engine = "set")
    /\ (http_last.req \in S /\ http_last.endpoint \in EngineEndpoints
            /\ agentic_engine = "None") => http_last.code = 503
    /\ (http_last.req \in S /\ http_last.endpoint = "GET /sources"
            /\ vector_store = "None") =>
           (http_last.code = 200 /\ http_last.body = "empty list")

ExpiryTaskLifecycle ==
    /\ [](cleanup_pc = "done" => cancelled)
    /\ [](lifespan_pc = "stopped" => cleanup_pc = "done")
    /\ [][(cancelled \/ lifespan_pc = "stopped") => sweep_last' = sweep_last]_vars
    /\ (cancelled ~> cleanup_pc = "done")
    /\ ((cleanup_pc = "sleeping" /\ ~cancelled) ~> (cleanup_pc = "due" \/ cancelled))
    /\ ((sweep_last = "raised" /\ ~cancelled) ~> (cleanup_pc = "due" \/ cancelled))

\* C19 as stated (a sweep after every interval until shutdown): after every
\* interval the task runs a sweep, for as long as the process runs; an
\* exception in a sweep does not stop later sweeps; cancelling ends the task
\* without cutting a sweep short, and no sweep starts after the shutdown.
C19_SweepEveryInterval ==
    /\ ExpiryTaskLifecycle
    /\ ((cleanup_pc = "due" /\ ~cancelled) ~>
            (sweep_last \in {"swept", "raised"} \/ cancelled))

\* C19 amended (a sweep after every interval while the vector store is
\* connected): a round that finds no vector store sweeps nothing.
C19_SweepEveryIntervalWhenConnected ==
    /\ ExpiryTaskLifecycle
    /\ ((cleanup_pc = "due" /\ ~cancelled /\ vector_store = "set") ~>
            (sweep_last \in {"swept", "raised"} \/ cancelled))
    /\ ((cleanup_pc = "due" /\ ~cancelled) ~> (sweep_last # "none" \/ cancelled))

\* a sweep has raised, the task went back to sleep, and the shutdown, which
\* cancelled it there, is complete
C19_Witness ==
    /\ lifespan_pc = "stopped"
    /\ cleanup_pc = "done"
    /\ sweep_last = "raised"

----------------------------------------------------------------------------
(* Retention timestamps, checked under Spec *)

\* C20 (expires_at is created_at plus the retention window): every source
\* record and every chunk written by add_documents has expires_at equal to
\* created_at plus exactly DATA_RETENTION_HOURS, and the chunks of a source
\* carry the created_at and expires_at of its source record.
C20_ExpiresExactlyRetention ==
    /\ \A s \in sources :
          ParseIso(s.expires_at) = ParseIso(s.created_at) + DATA_RETENTION_HOURS * HourTicks
    /\ \A p \in docs :
          /\ ParseIso(p.expires_at) = ParseIso(p.created_at) + DATA_RETENTION_HOURS * HourTicks
          /\ \A s \in sources :
                s.id = p.source_id =>
                    (s.created_at = p.created_at /\ s.expires_at = p.expires_at)

----------------------------------------------------------------------------
(* Properties of the model router, checked under RouterSpec *)

\* the complexity the last call routed by
RoutedComplexity ==
    IF route_last.complexity = "none" THEN route_last.detected ELSE route_last.complexity

\* C21 (the router finds a provider whenever one is available): route_query
\* returns no provider only when none is available; when the preferred
\* provider is missing or unavailable, 'simple' gets the first available of
\* groq, gemini, 'complex' the first available of anthropic, gemini, and
\* 'medium', or a tier with none available, the first available of anthropic,
\* gemini, groq.
C21_RouteFindsAvailable ==
    route_last.op = "route_query" =>
        LET av == GetAvailableProviders(available)
            dflt == FirstAvailable(av, <<"anthropic", "gemini", "groq">>)
            tier == IF RoutedComplexity = "simple"
                    THEN FirstAvailable(av, <<"groq", "gemini">>)
                    ELSE IF RoutedComplexity = "complex"
                    THEN FirstAvailable(av, <<"anthropic", "gemini">>)
                    ELSE "none"
        IN /\ route_last.provider = "none" => av = {}
           /\ av # {} => route_last.provider \in av
           /\ route_last.preferred \notin av =>
                 route_last.provider = IF tier # "none" THEN tier ELSE dflt

\* a simple query with an unusable openai key preferred, only anthropic and
\* openai configured: the tier has nobody and the default serves
C21_Witness ==
    /\ route_last.op = "route_query"
    /\ available = {"anthropic", "openai"}
    /\ route_last.preferred = "openai"
    /\ RoutedComplexity = "simple"
    /\ route_last.provider = "anthropic"

\* C22 (complexity detection): a query is 'simple' when it holds a simple
\* keyword and is shorter than 100; otherwise 'complex' when it holds an
\* explanatory keyword, or is longer than 200, or has more than one '?' or
\* more than two 'and'; 'medium' in every other case.
C22_DetectComplexity ==
    (route_last.op = "route_query" /\ route_last.complexity = "none") =>
        LET q == route_last.query
            simple == AnyKeyword(q, simple_keywords) /\ QueryLen(q) < 100
            complex == /\ ~simple
                       /\ \/ AnyKeyword(q, complex_keywords)
                          \/ QueryLen(q) > 200
                          \/ QueryCount(q, "?") > 1
                          \/ QueryCount(q, "and") > 2
        IN /\ simple <=> route_last.detected = "simple"
           /\ complex <=> route_last.detected = "complex"
           /\ (~simple /\ ~complex) <=> route_last.detected = "medium"
           /\ (AnyKeyword(q, {"explain"}) /\ QueryLen(q) > 200) =>
                 route_last.detected = "complex"

\* "what is" and 93 more characters: a simple keyword in a query of length
\* 100, which is 'medium'
C22_Witness ==
    /\ route_last.op = "route_query" /\ route_last.complexity = "none"
    /\ route_last.query = <<"what is", "pad93">>
    /\ route_last.detected = "medium"

----------------------------------------------------------------------------
(* AnswerVerifier.verify *)

\* the distinct keywords of a list of texts, word by word
DistinctKeywords(texts) ==
    UNION {{WordLower(texts[i][j]) :
              j \in {k \in DOMAIN texts[i] :
                       /\ Letters(texts[i][k]) >= MinKeywordLetters
                       /\ Cardinality({m \in 1..k :
                             Letters(texts[i][m]) >= MinKeywordLetters})
                          <= KeywordLimit}} :
           i \in DOMAIN texts}

\* C23: verify returns a confidence between 0 and 1 that is the fraction of
\* the distinct source keywords found among the answer keywords; it
\* returns verified = false with exactly one issue exactly when that
\* confidence is below 0.5 or there are no sources (the confidence is then 0),
\* and verified = true with no issue otherwise
C23_ConfidenceIsOverlapFraction ==
    verify_last.op = "verify" =>
        LET src == DistinctKeywords(verify_last.sources)
            ans == DistinctKeywords(<<verify_last.answer>>)
            c == verify_last.confidence
            low == BelowHalf(c) \/ verify_last.sources = <<>>
        IN /\ c[2] > 0 /\ 0 <= c[1] /\ c[1] <= c[2]
           /\ IF verify_last.sources = <<>>
              THEN c[1] = 0
              ELSE /\ src # {}
                   /\ c[1] * Cardinality(src) = Cardinality(src \cap ans) * c[2]
           /\ low => (~verify_last.verified /\ Len(verify_last.issues) = 1)
           /\ ~low => (verify_last.verified /\ verify_last.issues = <<>>)

----------------------------------------------------------------------------
(* Reranker.rerank *)

\* C24: without a scoring model, or when the scoring raises, rerank returns
\* the first top_k documents it was given, in the order given (all of them
\* when there are fewer), and raises nothing
C24_RerankFallsBackToPrefix ==
    (/\ rerank_last.op = "rerank"
     /\ rerank_last.model = "none" \/ rerank_last.raises) =>
        /\ ~rerank_last.raised
        /\ Len(rerank_last.result) =
              IF rerank_last.top_k < Len(rerank_last.documents)
              THEN rerank_last.top_k ELSE Len(rerank_last.documents)
        /\ \A i \in DOMAIN rerank_last.result :
              rerank_last.result[i] = rerank_last.documents[i]

\* a loaded model whose scoring raises, over three documents that the scores
\* would have reordered
C24_Witness ==
    /\ rerank_last.op = "rerank"
    /\ rerank_last.model = "loaded" /\ rerank_last.raises
    /\ rerank_last.documents = <<"d2", "d1", "d2">>
    /\ rerank_last.scores = <<0, 1, 1>>
    /\ rerank_last.top_k = 2
    /\ rerank_last.result = <<"d2", "d1">>

----------------------------------------------------------------------------
(* set_provider and the provider configuration *)

\* C25: set_provider with a provider that is unknown or cannot be created
\* raises ValueError and leaves provider, provider name and model as they
\* were; with a valid provider it replaces them, and get_current_config then
\* names the provider and the model asked for (the provider's default model
\* when none is given)
C25_SetProviderAllOrNothing ==
    [][config_last'.op = "set_provider" =>
         LET name == config_last'.name
             model == config_last'.model
             reported == config_last'.config
             agentic == config_last'.engine = "agentic"
             valid == IF agentic
                      THEN ProviderLower(name) \in (available \cap Providers)
                      ELSE name \in RagProviders
             wanted == IF model # "none" THEN model
                       ELSE IF agentic THEN DefaultModel(ProviderLower(name))
                       ELSE RagDefaultModel(name)
         IN IF ~valid
            THEN /\ config_last'.raised = "ValueError"
                 /\ UNCHANGED <<current_provider, current_provider_name, current_model,
                                provider_model, rag_provider, rag_model>>
            ELSE /\ config_last'.raised = "none"
                 /\ reported.provider = name /\ reported.model = wanted
                 /\ IF agentic
                    THEN /\ current_provider' = ProviderLower(name)
                         /\ current_provider_name' = name
                         /\ current_model' = wanted /\ provider_model' = wanted
                         /\ UNCHANGED <<rag_provider, rag_model>>
                    ELSE /\ rag_provider' = name /\ rag_model' = wanted
                         /\ UNCHANGED <<current_provider, current_provider_name,
                                        current_model, provider_model>>
    ]_vars

\* an unknown provider refused after groq was set with a model of its own
C25_Witness ==
    /\ config_last.op = "set_provider" /\ config_last.engine = "agentic"
    /\ config_last.name = "mistral" /\ config_last.raised = "ValueError"
    /\ current_provider = "groq" /\ current_provider_name = "groq"
    /\ current_model = "custom-model"
    /\ GetDefaultProvider(available) = "anthropic"

\* C29: current_provider_name and current_model are the provider_name and the
\* model of current_provider at every point, and 'none' exactly when there is
\* no provider, so that get_current_config and the metrics name the provider
\* and model that serve the queries
C29_NameAndModelMatchProvider ==
    /\ current_provider_name = current_provider
    /\ current_model = provider_model
    /\ current_provider_name = "none" <=> current_provider = "none"
    /\ current_model = "none" <=> current_provider = "none"
    /\ (config_last.engine = "agentic" /\ config_last.raised = "none") =>
          /\ config_last.config.provider = current_provider
          /\ config_last.config.model = provider_model

----------------------------------------------------------------------------
(* clear_conversation *)

\* C26: after clear_conversation(s) the history of s is empty and the history
\* of every other session is as before; on a session without history the call
\* changes nothing and raises nothing
C26_ClearOnlyThatSession ==
    [][last'.op \in {"clear", "rag_clear"} =>
         LET s == last'.session
             before == IF last'.op = "clear" THEN conversations ELSE rag_conversations
             after == IF last'.op = "clear" THEN conversations' ELSE rag_conversations'
         IN /\ ~last'.raised
            /\ Len(after[s]) = 0
            /\ \A t \in Sessions \ {s} : after[t] = before[t]
            /\ before[s] = <<>> => after = before
            /\ last'.op = "clear" => rag_conversations' = rag_conversations
            /\ last'.op = "rag_clear" => conversations' = conversations
    ]_vars

\* the agentic history of s1 cleared with two turns in it, that of s2 and the
\* histories of the other engine still two turns long
C26_Witness ==
    /\ last.op = "clear" /\ last.session = "s1" /\ last.n = 2
    /\ conversations["s1"] = <<>>
    /\ Len(conversations["s2"]) = 2
    /\ Len(rag_conversations["s1"]) = 2

----------------------------------------------------------------------------
(* The two collections of the vector store *)

\* C27: no orphaned chunks: between calls, every stored chunk has a source
\* record of its source_id with the same user_id and expires_at, and the
\* chunk count of every source record is the number of stored chunks that
\* carry its source_id
C27_NoOrphanedChunks ==
    /\ \A d \in docs :
          \E s \in sources : /\ s.id = d.source_id
                             /\ s.user_id = d.user_id
                             /\ s.expires_at = d.expires_at
    /\ \A s \in sources :
          s.chunks = SumN({d \in docs : d.source_id = s.id})

\* C28: search returns no chunk whose expires_at lies before the time of the
\* search, whether or not a sweep has run since the chunk expired
C28_SearchSkipsExpired ==
    last.op = "search" =>
        \A d \in last.result : ~(ParseIso(d.expires_at) < now)

----------------------------------------------------------------------------
(* MultiHopRetrieval.retrieve and the query expansion *)

\* C30: every hop of retrieve searches with the original query, and over an
\* unchanged store retrieve with max_hops = 2 returns the sequence that
\* retrieve with max_hops = 1 returns, for the same query and top_k
C30_SecondHopAddsNothing ==
    /\ \A h \in DOMAIN hop_runs :
          \A i \in DOMAIN hop_runs[h].searched :
              hop_runs[h].searched[i] = hop_setup.query
    /\ (hop_runs[1].ran /\ hop_runs[2].ran) => hop_runs[2].result = hop_runs[1].result

\* both calls made for a query that the expander varies, over a store that
\* answers the variants differently; the second call searched twice
C30_Witness ==
    /\ hop_runs[1].ran /\ hop_runs[2].ran
    /\ hop_setup.query = <<"what", "x">> /\ hop_setup.top_k = 1
    /\ hop_setup.model = "loaded" /\ ~hop_setup.raises
    /\ Len(ranking) = 2 /\ hop_setup.other_ranking # ranking
    /\ Len(hop_runs[2].searched) = 2
    /\ Len(hop_runs[2].result) = 1

====
